---------------------------- MODULE Spec2Model ----------------------------
(***************************************************************************)
(* Verification model of the Twitch channel points miner: the watch        *)
(* scheduler (pickStreamersToWatch), the prediction engine (event          *)
(* registry, placement, resolution) and the pure decision functions        *)
(* (selectOutcome, Decide).                                                *)
(***************************************************************************)
EXTENDS Integers, Sequences, FiniteSets, TLC

(***************************************************************************)
(* float64 arithmetic.  The code computes stakes, shares, odds and payouts *)
(* in float64; the model computes the same values bit for bit.  A natural  *)
(* number of any size is a sequence of limbs in base 2^14, least           *)
(* significant limb first, without high zero limbs.  A non-negative finite *)
(* float64 is the record [m |-> limbs, e |-> k] of value Nat(m) * 2^k with *)
(* 2^52 <= Nat(m) < 2^53 (zero is [m |-> <<>>, e |-> 0]), so equal values  *)
(* are equal records.  Every operation computes the exact result and       *)
(* rounds it to 53 significant bits, ties to even, as IEEE 754 binary64    *)
(* does.  The values of the model stay far from overflow and from the      *)
(* subnormal range.                                                        *)
(***************************************************************************)
MantissaBits == 53
LimbBits == 14
Base == 2^LimbBits

Min(a, b) == IF a < b THEN a ELSE b
Max(a, b) == IF a > b THEN a ELSE b

RECURSIVE LTrim(_)
LTrim(a) ==
    IF a = <<>> THEN a
    ELSE IF a[Len(a)] = 0 THEN LTrim(SubSeq(a, 1, Len(a) - 1)) ELSE a

RECURSIVE LOfNat(_)
LOfNat(n) == IF n = 0 THEN <<>> ELSE <<n % Base>> \o LOfNat(n \div Base)

RECURSIVE LToNat(_)
LToNat(a) == IF a = <<>> THEN 0 ELSE a[1] + Base * LToNat(Tail(a))

RECURSIVE LLessFrom(_, _, _)
LLessFrom(a, b, i) ==
    IF i = 0 THEN FALSE
    ELSE IF a[i] # b[i] THEN a[i] < b[i]
    ELSE LLessFrom(a, b, i - 1)

\* a < b, for limb sequences without high zero limbs
LLess(a, b) == IF Len(a) # Len(b) THEN Len(a) < Len(b) ELSE LLessFrom(a, b, Len(a))

Limb(a, i) == IF i <= Len(a) THEN a[i] ELSE 0

RECURSIVE LAddFrom(_, _, _, _)
LAddFrom(a, b, i, carry) ==
    IF i > Len(a) /\ i > Len(b) THEN (IF carry = 0 THEN <<>> ELSE <<carry>>)
    ELSE LET t == Limb(a, i) + Limb(b, i) + carry
         IN  <<t % Base>> \o LAddFrom(a, b, i + 1, t \div Base)

LAdd(a, b) == LAddFrom(a, b, 1, 0)

RECURSIVE LSubFrom(_, _, _, _)
LSubFrom(a, b, i, borrow) ==
    IF i > Len(a) THEN <<>>
    ELSE LET t == a[i] - Limb(b, i) - borrow
         IN  <<t % Base>> \o LSubFrom(a, b, i + 1, IF t < 0 THEN 1 ELSE 0)

\* a - b, for a >= b
LSub(a, b) == LTrim(LSubFrom(a, b, 1, 0))

RECURSIVE LMulSmallFrom(_, _, _, _)
LMulSmallFrom(a, c, i, carry) ==
    IF i > Len(a) THEN LOfNat(carry)
    ELSE LET t == a[i] * c + carry
         IN  <<t % Base>> \o LMulSmallFrom(a, c, i + 1, t \div Base)

\* a * c, for 0 <= c <= 2^16
LMulSmall(a, c) == LTrim(LMulSmallFrom(a, c, 1, 0))

LZeros(n) == [i \in 1..n |-> 0]

\* a * Base^n
LShiftLimbs(a, n) == IF a = <<>> THEN a ELSE LZeros(n) \o a

RECURSIVE LMulFrom(_, _, _)
LMulFrom(a, b, j) ==
    IF j > Len(b) THEN <<>>
    ELSE LAdd(LShiftLimbs(LMulSmall(a, b[j]), j - 1), LMulFrom(a, b, j + 1))

LMul(a, b) == LTrim(LMulFrom(a, b, 1))

\* <<quotient limbs below position i, remainder>> of a / c, for 0 < c <= 2^16
RECURSIVE LDivSmallFrom(_, _, _, _)
LDivSmallFrom(a, c, i, rem) ==
    IF i = 0 THEN <<<<>>, rem>>
    ELSE LET t    == rem * Base + a[i]
             rest == LDivSmallFrom(a, c, i - 1, t % c)
         IN  <<rest[1] \o <<t \div c>>, rest[2]>>

LDivSmall(a, c) == LTrim(LDivSmallFrom(a, c, Len(a), 0)[1])

\* a * 2^k
LShl(a, k) == LMulSmall(LShiftLimbs(a, k \div LimbBits), 2^(k % LimbBits))

\* a \div 2^k
LShr(a, k) ==
    IF k \div LimbBits >= Len(a) THEN <<>>
    ELSE LDivSmall(SubSeq(a, (k \div LimbBits) + 1, Len(a)), 2^(k % LimbBits))

RECURSIVE BitLenNat(_)
BitLenNat(n) == IF n = 0 THEN 0 ELSE 1 + BitLenNat(n \div 2)

LBitLen(a) == IF a = <<>> THEN 0 ELSE LimbBits * (Len(a) - 1) + BitLenNat(a[Len(a)])

LIsOdd(a) == a # <<>> /\ a[1] % 2 = 1

FZero == [m |-> <<>>, e |-> 0]

\* the float64 nearest to n * 2^e (a little above it when sticky), ties to even
RoundToFloat(n, e, sticky) ==
    LET len == LBitLen(n)
        d   == len - MantissaBits
    IN  IF n = <<>> THEN FZero
        ELSE IF d <= 0 THEN [m |-> LShl(n, -d), e |-> e + d]
        ELSE LET q    == LShr(n, d)
                 r    == LSub(n, LShl(q, d))
                 half == LShl(<<1>>, d - 1)
                 up   == LLess(half, r) \/ (r = half /\ (sticky \/ LIsOdd(q)))
                 mm   == IF up THEN LAdd(q, <<1>>) ELSE q
             IN  IF LBitLen(mm) > MantissaBits
                 THEN [m |-> LShr(mm, 1), e |-> e + d + 1]
                 ELSE [m |-> mm, e |-> e + d]

\* float64(n) for an int n >= 0
FOfInt(n) == RoundToFloat(LOfNat(n), 0, FALSE)

\* the mantissa of x over the common exponent Min(x.e, y.e)
AlignM(x, y) == LShl(x.m, x.e - Min(x.e, y.e))

FLess(x, y) ==
    IF y.m = <<>> THEN FALSE
    ELSE IF x.m = <<>> THEN TRUE
    ELSE LLess(AlignM(x, y), AlignM(y, x))

FAdd(x, y) ==
    IF x.m = <<>> THEN y
    ELSE IF y.m = <<>> THEN x
    ELSE RoundToFloat(LAdd(AlignM(x, y), AlignM(y, x)), Min(x.e, y.e), FALSE)

\* math.Abs(x - y)
FAbsSub(x, y) ==
    IF x.m = <<>> THEN y
    ELSE IF y.m = <<>> THEN x
    ELSE IF FLess(x, y)
         THEN RoundToFloat(LSub(AlignM(y, x), AlignM(x, y)), Min(x.e, y.e), FALSE)
         ELSE RoundToFloat(LSub(AlignM(x, y), AlignM(y, x)), Min(x.e, y.e), FALSE)

FMul(x, y) ==
    IF x.m = <<>> \/ y.m = <<>> THEN FZero
    ELSE RoundToFloat(LMul(x.m, y.m), x.e + y.e, FALSE)

\* the value of the limbs of a above the two lowest ones
TopOf(a) == IF Len(a) <= 2 THEN 0 ELSE LToNat(SubSeq(a, 3, Len(a)))

\* the quotient digit of rem / den in radix 2^DigitBits, for rem < den * 2^DigitBits
\* and a den of 53 bits; the leading limbs of rem and den bracket the digit
DigitBits == 5
QuoDigit(rem, den) ==
    CHOOSE q \in (TopOf(rem) \div (TopOf(den) + 1))..
                 Min(2^DigitBits - 1, (TopOf(rem) + 1) \div TopOf(den)) :
        /\ ~LLess(rem, LMulSmall(den, q))
        /\ LLess(rem, LMulSmall(den, q + 1))

\* <<quotient, remainder>> of num * 2^(DigitBits * k) / den, given those of
\* num / den; once the remainder is 0 the digits that are left are 0
RECURSIVE LDivFrac(_, _, _)
LDivFrac(qr, den, k) ==
    IF k = 0 THEN qr
    ELSE IF qr[2] = <<>> THEN <<LShl(qr[1], DigitBits * k), <<>>>>
    ELSE LET r == LMulSmall(qr[2], 2^DigitBits)
             q == QuoDigit(r, den)
         IN  LDivFrac(<<LAdd(LMulSmall(qr[1], 2^DigitBits), LOfNat(q)),
                        LSub(r, LMulSmall(den, q))>>, den, k - 1)

\* a divisor whose mantissa is c * 2^37 for a c below 2^16 (every integer up to
\* 2^16 is one) is divided by in one pass of short division
ShortBits == 37
IsShort(y) == y.m[1] = 0 /\ y.m[2] = 0 /\ y.m[3] % 2^(ShortBits - 2 * LimbBits) = 0
ShortOf(y) == TopOf(y.m) \div 2^(ShortBits - 2 * LimbBits)

\* x / y for y > 0: both mantissas have 53 bits, so the integer part of
\* x.m / y.m is 0 or 1 and 12 further digits of 5 bits give at least 60
\* quotient bits; what is left of the division is the sticky bit
FracDigits == 12
FDiv(x, y) ==
    IF x.m = <<>> THEN FZero
    ELSE IF IsShort(y)
    THEN LET qr == LDivSmallFrom(LShiftLimbs(x.m, 2), ShortOf(y), Len(x.m) + 2, 0)
         IN  RoundToFloat(LTrim(qr[1]), x.e - y.e - ShortBits - 2 * LimbBits, qr[2] # 0)
    ELSE LET q0 == IF LLess(x.m, y.m) THEN <<<<>>, x.m>> ELSE <<<<1>>, LSub(x.m, y.m)>>
             qr == LDivFrac(q0, y.m, FracDigits)
         IN  RoundToFloat(qr[1], x.e - y.e - DigitBits * FracDigits, qr[2] # <<>>)

\* int(x): truncation toward zero
FTruncInt(x) ==
    IF x.m = <<>> THEN 0
    ELSE IF x.e >= 0 THEN LToNat(LShl(x.m, x.e))
    ELSE LToNat(LShr(x.m, -x.e))

\* int(math.Round(x)): the nearest integer, halves away from zero
FRoundInt(x) ==
    IF x.m = <<>> THEN 0
    ELSE IF x.e >= 0 THEN LToNat(LShl(x.m, x.e))
    ELSE LToNat(LShr(LAdd(x.m, LShl(<<1>>, -x.e - 1)), -x.e))

(***************************************************************************)
(* Prediction outcomes and the decision functions (classes/entities).      *)
(* A raw outcome is what an event message carries for one outcome:         *)
(* [id, total_users, total_points, top_points], top_points being the       *)
(* points of the first top predictor (0 when there is none).               *)
(***************************************************************************)
StrategyMostVoted  == "MOST_VOTED"
StrategyHighOdds   == "HIGH_ODDS"
StrategyPercentage == "PERCENTAGE"
StrategySmartMoney == "SMART_MONEY"
StrategySmart      == "SMART"
StrategyNumbers    == <<"NUMBER_1", "NUMBER_2", "NUMBER_3", "NUMBER_4",
                        "NUMBER_5", "NUMBER_6", "NUMBER_7", "NUMBER_8">>

RECURSIVE SumField(_, _)
SumField(vals, i) == IF i = 0 THEN 0 ELSE vals[i] + SumField(vals, i - 1)

\* a share that is the voter count itself
PercentageUsersOfCount(users, totalUsers) == FOfInt(users)

\* UpdateOutcomes: PercentageUsers of an outcome of users voters out of totalUsers
PercentageUsersOf(users, totalUsers) ==
    IF totalUsers > 0 THEN FDiv(FMul(FOfInt(users), FOfInt(100)), FOfInt(totalUsers))
    ELSE FZero

\* PredictionEvent.UpdateOutcomes: the parsed outcomes with their derived metrics
UpdateOutcomes(raw) ==
    LET totalUsers  == SumField([i \in 1..Len(raw) |-> raw[i].total_users], Len(raw))
        totalPoints == SumField([i \in 1..Len(raw) |-> raw[i].total_points], Len(raw))
        odds(i) == IF raw[i].total_points > 0
                   THEN FDiv(FOfInt(totalPoints), FOfInt(raw[i].total_points))
                   ELSE FZero
    IN  [i \in 1..Len(raw) |->
            [ID              |-> raw[i].id,
             TotalUsers      |-> raw[i].total_users,
             TotalPoints     |-> raw[i].total_points,
             TopPoints       |-> raw[i].top_points,
             PercentageUsers |-> PercentageUsersOf(raw[i].total_users, totalUsers),
             Odds            |-> odds(i),
             OddsPercentage  |-> IF odds(i) # FZero THEN FDiv(FOfInt(100), odds(i))
                                 ELSE FZero]]

\* the loop of maxIndex with >= in place of >
RECURSIVE maxIndexLoopLast(_, _, _, _)
maxIndexLoopLast(vals, i, best, bestVal) ==
    IF i >= Len(vals) THEN best
    ELSE IF ~FLess(vals[i + 1], bestVal) THEN maxIndexLoopLast(vals, i + 1, i, vals[i + 1])
    ELSE maxIndexLoopLast(vals, i + 1, best, bestVal)

\* the loop of maxIndex over the values of the outcomes, from (0-based) index i
RECURSIVE maxIndexLoop(_, _, _, _)
maxIndexLoop(vals, i, best, bestVal) ==
    IF i >= Len(vals) THEN best
    ELSE IF FLess(bestVal, vals[i + 1]) THEN maxIndexLoop(vals, i + 1, i, vals[i + 1])
    ELSE maxIndexLoop(vals, i + 1, best, bestVal)

\* maxIndex: the 0-based index of the first outcome of maximum value, -1 if none
\* value is the func(PredictionOutcome) float64 of the caller, as a function on
\* the outcomes
maxIndex(outcomes, value) ==
    IF Len(outcomes) = 0 THEN -1
    ELSE LET vals == [i \in 1..Len(outcomes) |-> value[outcomes[i]]]
         IN  maxIndexLoop(vals, 1, 0, vals[1])

\* the func literals that selectOutcome passes to maxIndex
OutcomesOf(outcomes)          == {outcomes[i] : i \in 1..Len(outcomes)}
ValueTotalUsers(outcomes)     == [o \in OutcomesOf(outcomes) |-> FOfInt(o.TotalUsers)]
ValueOdds(outcomes)           == [o \in OutcomesOf(outcomes) |-> o.Odds]
ValueOddsPercentage(outcomes) == [o \in OutcomesOf(outcomes) |-> o.OddsPercentage]
ValueTopPoints(outcomes)      == [o \in OutcomesOf(outcomes) |-> FOfInt(o.TopPoints)]

\* sort.SliceStable by PercentageUsers, descending: stable insertion
RECURSIVE InsertByShare(_, _)
InsertByShare(sorted, o) ==
    IF sorted = <<>> THEN <<o>>
    ELSE IF FLess(sorted[Len(sorted)].PercentageUsers, o.PercentageUsers)
    THEN InsertByShare(SubSeq(sorted, 1, Len(sorted) - 1), o) \o <<sorted[Len(sorted)]>>
    ELSE sorted \o <<o>>

RECURSIVE SortByShare(_, _)
SortByShare(outcomes, n) ==
    IF n = 0 THEN <<>> ELSE InsertByShare(SortByShare(outcomes, n - 1), outcomes[n])

\* the gap test of SMART with <= in place of <
WithinGapInclusive(first, second, gap) ==
    ~FLess(FOfInt(gap), FAbsSub(first.PercentageUsers, second.PercentageUsers))

\* SMART: math.Abs(percents[0].PercentageUsers-percents[1].PercentageUsers) < float64(gap)
WithinGap(first, second, gap) ==
    FLess(FAbsSub(first.PercentageUsers, second.PercentageUsers), FOfInt(gap))

\* the number of a NUMBER_k strategy taken as 1
NumberOfFirst(strategy) == 1

\* the k of the strategy NUMBER_k
NumberOf(strategy) == CHOOSE k \in 1..Len(StrategyNumbers) : StrategyNumbers[k] = strategy

\* selectOutcome: the 0-based index of the outcome to bet on, -1 if there is none
selectOutcome(outcomes, settings) ==
    IF Len(outcomes) = 0 THEN -1
    ELSE LET strategy == IF settings.Strategy = "" THEN StrategySmart
                         ELSE settings.Strategy
         IN  CASE strategy = StrategyMostVoted  -> maxIndex(outcomes, ValueTotalUsers(outcomes))
               [] strategy = StrategyHighOdds   -> maxIndex(outcomes, ValueOdds(outcomes))
               [] strategy = StrategyPercentage -> maxIndex(outcomes, ValueOddsPercentage(outcomes))
               [] strategy = StrategySmartMoney -> maxIndex(outcomes, ValueTopPoints(outcomes))
               [] \E k \in 1..Len(StrategyNumbers) : StrategyNumbers[k] = strategy ->
                     IF Len(outcomes) > NumberOf(strategy) - 1
                     THEN NumberOf(strategy) - 1
                     ELSE maxIndex(outcomes, ValueOdds(outcomes))
               [] strategy = StrategySmart ->
                     LET percents == SortByShare(outcomes, Len(outcomes))
                     IN  IF /\ Len(percents) >= 2
                            /\ WithinGap(percents[1], percents[2], settings.PercentageGap)
                         THEN maxIndex(outcomes, ValueOdds(outcomes))
                         ELSE maxIndex(outcomes, ValueTotalUsers(outcomes))
               [] OTHER -> maxIndex(outcomes, ValueOdds(outcomes))

NoDecision == [Choice |-> 0, OutcomeID |-> "", Amount |-> 0]

\* the stake of Decide: the percentage of the balance, capped, then kept under
\* the top stake of the chosen outcome in stealth mode
StakeAmount(balance, settings, topPoints) ==
    LET amount == FTruncInt(FMul(FOfInt(balance),
                                 FDiv(FOfInt(settings.Percentage), FOfInt(100))))
        capped == IF amount > settings.MaxPoints THEN settings.MaxPoints ELSE amount
    IN  IF settings.StealthMode /\ topPoints > 0 /\ capped >= topPoints
        THEN (IF topPoints - 1 < 1 THEN 1 ELSE topPoints - 1)
        ELSE capped

(***************************************************************************)
(* State of the program.                                                   *)
(***************************************************************************)
VARIABLES
    now,             \* time.Now(), in seconds
    watchPriorities, \* Miner.watchPriorities
    streamers,       \* the tracked channels (entities.Streamer), in input order
    watchList,       \* minuteWatcher: the channels returned by the last pick
    wentOnline,      \* history: when each channel last went from offline to online
    predictions,     \* PubSubClient.predictions: event id -> event object (0: absent)
    events,          \* the PredictionEvent objects allocated and still referenced
    timers,          \* the time.AfterFunc placement timers ever created
    wagers,          \* the wagers submitted to the platform by MakePrediction
    skipped,         \* the last "Skip bet" line logged by placePrediction, if any
    resultLog,       \* the results logged and recorded by logPredictionResult
    tasks,           \* position of the handlers that run concurrently
    topics,          \* PubSubClient.Start: the topics that buildTopics returned
    conns,           \* PubSubClient.Start: the connection loops, one per batch
    stop,            \* the stop channel is closed
    returned         \* the value that the function called last returned

vars == <<now, watchPriorities, streamers, watchList, wentOnline, predictions,
          events, timers, wagers, skipped, resultLog, tasks, topics, conns, stop,
          returned>>

watchVars == <<now, watchPriorities, streamers, watchList, wentOnline>>
predictionVars == <<predictions, events, timers, wagers, skipped, resultLog, tasks>>
connVars == <<topics, conns, stop, returned>>

\* before PubSubClient.Start, and no function called
NoConnState ==
    /\ topics = <<>>
    /\ conns = <<>>
    /\ stop = FALSE
    /\ returned = <<>>

Range(seq) == {seq[i] : i \in 1..Len(seq)}

(***************************************************************************)
(* The watch scheduler (Miner).  Channels are numbered by their position   *)
(* in the input order, from 1.                                             *)
(***************************************************************************)
ZeroTime == 0       \* the zero time.Time, earlier than every time.Now()

watchPriorityOrder            == 0
watchPriorityStreak           == 1
watchPriorityDrops            == 2
watchPrioritySubscribed       == 3
watchPriorityPointsAscending  == 4
watchPriorityPointsDescending == 5

maxConcurrentWatchers == 2

defaultWatchPriorities ==
    <<watchPriorityStreak, watchPriorityDrops, watchPriorityOrder>>

OnlineDebounce == 30          \* 30*time.Second
StreakOfflineGrace == 1800    \* 30*time.Minute
StreakMinutes == 7

\* IsCandidate without the 30 second debounce
IsCandidateNoDebounce(s, t) == s.IsOnline

\* the candidates of pickStreamersToWatch: online, and not online for under 30s
IsCandidate(s, t) ==
    /\ s.IsOnline
    /\ ~(s.OnlineAt # ZeroTime /\ t - s.OnlineAt < OnlineDebounce)

shouldPrioritizeStreak(s, t) ==
    /\ s.Settings.WatchStreak /\ s.Stream.WatchStreakMissing
    /\ ~(s.OfflineAt # ZeroTime /\ t - s.OfflineAt <= StreakOfflineGrace)
    /\ s.Stream.MinuteWatched < StreakMinutes

\* add without the seen set
addNoSeen(selected, idx) ==
    IF Len(selected) >= maxConcurrentWatchers THEN selected
    ELSE Append(selected, idx)

\* add: append idx unless the list is full or idx was seen (seen holds exactly
\* the indices appended so far)
add(selected, idx) ==
    IF Len(selected) >= maxConcurrentWatchers THEN selected
    ELSE IF idx \in Range(selected) THEN selected
    ELSE Append(selected, idx)

RECURSIVE pick(_, _)
pick(selected, indices) ==
    IF indices = <<>> THEN selected
    ELSE LET sel == add(selected, Head(indices))
         IN  IF Len(sel) >= maxConcurrentWatchers THEN sel
             ELSE pick(sel, Tail(indices))

\* sort.SliceStable of indices, by key[idx] descending: stable insertion
RECURSIVE InsertByKey(_, _, _)
InsertByKey(sorted, idx, key) ==
    IF sorted = <<>> THEN <<idx>>
    ELSE IF key[sorted[Len(sorted)]] < key[idx]
    THEN InsertByKey(SubSeq(sorted, 1, Len(sorted) - 1), idx, key)
            \o <<sorted[Len(sorted)]>>
    ELSE sorted \o <<idx>>

RECURSIVE SortDescending(_, _, _)
SortDescending(indices, n, key) ==
    IF n = 0 THEN <<>>
    ELSE InsertByKey(SortDescending(indices, n - 1, key), indices[n], key)

\* a pass that offers every candidate, whatever the priority
PassIndicesAll(priority, candidates, strs, t) == candidates

\* the indices one priority pass offers, in the order it offers them
PassIndices(priority, candidates, strs, t) ==
    LET IsStreak(idx) == shouldPrioritizeStreak(strs[idx], t)
        IsDrops(idx)  == strs[idx].Settings.ClaimDrops /\ strs[idx].Stream.CampaignIDs > 0
        n == Len(candidates)
    IN  CASE priority = watchPriorityOrder  -> candidates
          [] priority = watchPriorityStreak -> SelectSeq(candidates, IsStreak)
          [] priority = watchPriorityDrops  -> SelectSeq(candidates, IsDrops)
          [] priority = watchPrioritySubscribed ->
                SortDescending(candidates, n, [i \in 1..Len(strs) |-> strs[i].TotalMultiplier])
          [] priority = watchPriorityPointsAscending ->
                SortDescending(candidates, n, [i \in 1..Len(strs) |-> -strs[i].ChannelPoints])
          [] priority = watchPriorityPointsDescending ->
                SortDescending(candidates, n, [i \in 1..Len(strs) |-> strs[i].ChannelPoints])
          [] OTHER -> <<>>

RECURSIVE PriorityPasses(_, _, _, _, _)
PriorityPasses(selected, priorities, candidates, strs, t) ==
    IF priorities = <<>> \/ Len(selected) >= maxConcurrentWatchers THEN selected
    ELSE PriorityPasses(pick(selected, PassIndices(Head(priorities), candidates, strs, t)),
                        Tail(priorities), candidates, strs, t)

\* pickStreamersToWatch without the pick(candidates) after the passes
pickStreamersToWatchNoFallback(strs, priorities, t) ==
    LET IsCand(idx) == IsCandidate(strs[idx], t)
        candidates == SelectSeq([i \in 1..Len(strs) |-> i], IsCand)
    IN  PriorityPasses(<<>>, priorities, candidates, strs, t)

\* Miner.pickStreamersToWatch at time t
pickStreamersToWatch(strs, priorities, t) ==
    LET IsCand(idx) == IsCandidate(strs[idx], t)
        candidates == SelectSeq([i \in 1..Len(strs) |-> i], IsCand)
        selected   == PriorityPasses(<<>>, priorities, candidates, strs, t)
    IN  IF Len(selected) < maxConcurrentWatchers THEN pick(selected, candidates)
        ELSE selected

\* Miner.setPresence
setPresence(s, online, t) ==
    LET changed == online # s.IsOnline \/ ~s.PresenceKnown
    IN  [s EXCEPT !.PresenceKnown = TRUE,
                  !.OnlineAt  = IF changed /\ online THEN t ELSE @,
                  !.OfflineAt = IF changed /\ ~online THEN t ELSE @,
                  !.IsOnline  = online]

\* Twitch.CheckStreamerOnline, by what streamInfo answers
CheckStreamerOnline(s, answer, t) ==
    CASE answer = "offline" -> [s EXCEPT !.IsOnline = FALSE, !.OfflineAt = t]
      [] answer = "online"  -> [s EXCEPT !.IsOnline = TRUE, !.OnlineAt = t]
      [] OTHER              -> s

\* Miner.updatePresence
updatePresence(s, answer, t) ==
    IF answer \in {"online", "offline"}
    THEN setPresence(CheckStreamerOnline(s, answer, t), answer = "online", t)
    ELSE CheckStreamerOnline(s, answer, t)

\* the history variable: a step that turns IsOnline on is the latest transition
WentOnlineAfter(i, s2, t) ==
    IF s2.IsOnline /\ ~streamers[i].IsOnline THEN t ELSE wentOnline[i]

(***************************************************************************)
(* Channels and their settings.                                            *)
(***************************************************************************)
\* BetSettings after BetSettings.Default()
DefaultBet ==
    [Strategy |-> StrategySmart, Percentage |-> 5, PercentageGap |-> 20,
     MaxPoints |-> 50000, MinimumPoints |-> 0, StealthMode |-> FALSE]

\* Miner.StreamerSettings, shared by every channel
StreamerSettings(bet) ==
    [MakePredictions |-> TRUE, ClaimDrops |-> TRUE, WatchStreak |-> TRUE, Bet |-> bet]

HistoryReasons == {"PREDICTION", "REFUND", "WATCH"}
NoHistory == [r \in HistoryReasons |-> [Count |-> 0, Amount |-> 0]]

\* a channel as run() creates it, before its presence is known; TotalMultiplier
\* is the sum of the factors of its active multipliers
NewStreamer(points, multiplier, campaigns, streakMissing, bet) ==
    [IsOnline |-> FALSE, PresenceKnown |-> FALSE,
     OnlineAt |-> ZeroTime, OfflineAt |-> ZeroTime,
     ChannelPoints |-> points, TotalMultiplier |-> multiplier,
     Settings |-> StreamerSettings(bet),
     Stream |-> [WatchStreakMissing |-> streakMissing, MinuteWatched |-> 0,
                 CampaignIDs |-> campaigns],
     History |-> NoHistory]

NumStreamers == 3       \* channels tracked by the scheduler
TickSeconds == 15       \* the clock advances in steps of this many seconds
MaxNow == 46            \* the clock stops here
PickNow == 100          \* the time of the pick when the pick is checked alone

Answers == {"online", "offline", "error"}

PriorityLists ==
    {defaultWatchPriorities}
      \cup {<<a>> : a \in watchPriorityOrder..watchPriorityPointsDescending}
      \cup {<<a, b>> : a, b \in watchPriorityOrder..watchPriorityPointsDescending}

\* parseWatchPriorities keeps the first occurrence of every name
ParsedPriorityLists == {l \in PriorityLists : Cardinality(Range(l)) = Len(l)}

NumEventIDs == 1        \* event ids in play
EventIDs == {<<"e1", "e2", "e3">>[i] : i \in 1..NumEventIDs}

\* the empty registry (make(map[string]*PredictionEvent))
NoPredictions == [id \in EventIDs |-> 0]

NoPredictionState ==
    /\ predictions = NoPredictions
    /\ events = <<>>
    /\ timers = <<>>
    /\ wagers = <<>>
    /\ skipped = <<>>
    /\ resultLog = <<>>
    /\ tasks = <<>>
    /\ NoConnState

\* the scheduler after run() loaded the channels and polled each one once
InitWatch ==
    /\ now = ZeroTime + 1
    /\ watchPriorities \in {defaultWatchPriorities, <<watchPriorityPointsDescending>>}
    /\ \E answers \in [1..NumStreamers -> Answers] :
          /\ streamers = [i \in 1..NumStreamers |->
                updatePresence(NewStreamer(100 * i, 0, i % 2, i % 2 = 1, DefaultBet),
                               answers[i], now)]
          /\ wentOnline = [i \in 1..NumStreamers |->
                IF answers[i] = "online" THEN now ELSE ZeroTime]
    /\ watchList = <<>>
    /\ NoPredictionState

\* channels in every presence at the time of a pick: offline, online for 10
\* seconds, online for a minute
PresenceAt(s, presence, t) ==
    CASE presence = "offline" -> setPresence(s, FALSE, t - 60)
      [] presence = "fresh"   -> setPresence(s, TRUE, t - 10)
      [] OTHER                -> setPresence(s, TRUE, t - 60)

ChannelProfiles ==
    {NewStreamer(pm[1], pm[2], c, m, DefaultBet) :
        pm \in {<<100, 0>>, <<200, 2>>}, c \in 0..1, m \in BOOLEAN}

InitPick ==
    /\ now = PickNow
    /\ watchPriorities \in ParsedPriorityLists
    /\ \E presence \in [1..NumStreamers -> {"offline", "fresh", "settled"}] :
       \E profile \in [1..NumStreamers -> ChannelProfiles] :
          /\ streamers = [i \in 1..NumStreamers |->
                              PresenceAt(profile[i], presence[i], now)]
          /\ wentOnline = [i \in 1..NumStreamers |-> streamers[i].OnlineAt]
    /\ watchList = <<>>
    /\ NoPredictionState

Tick ==
    /\ now + TickSeconds <= MaxNow
    /\ now' = now + TickSeconds
    /\ UNCHANGED <<watchPriorities, streamers, watchList, wentOnline>>
    /\ UNCHANGED predictionVars
    /\ UNCHANGED connVars

\* processPlaybackMessage -> handlePubSubPresence: stream-up, viewcount, stream-down
HandlePubSubPresence(i, online) ==
    /\ streamers' = [streamers EXCEPT ![i] = setPresence(@, online, now)]
    /\ wentOnline' = [wentOnline EXCEPT ![i] = WentOnlineAfter(i, streamers'[i], now)]
    /\ UNCHANGED <<now, watchPriorities, watchList>>
    /\ UNCHANGED predictionVars
    /\ UNCHANGED connVars

\* minuteWatcher: re-validation of a selected channel whose stream data is stale
MinuteWatcherRevalidate(i, answer) ==
    /\ i \in Range(watchList)
    /\ streamers' = [streamers EXCEPT ![i] = CheckStreamerOnline(@, answer, now)]
    /\ wentOnline' = [wentOnline EXCEPT ![i] = WentOnlineAfter(i, streamers'[i], now)]
    /\ UNCHANGED <<now, watchPriorities, watchList>>
    /\ UNCHANGED predictionVars
    /\ UNCHANGED connVars

\* minuteWatcher: the pick at the top of every round
MinuteWatcherPick ==
    /\ watchList' = pickStreamersToWatch(streamers, watchPriorities, now)
    /\ UNCHANGED <<now, watchPriorities, streamers, wentOnline>>
    /\ UNCHANGED predictionVars
    /\ UNCHANGED connVars

NextWatch ==
    \/ Tick
    \/ \E i \in 1..NumStreamers, online \in BOOLEAN : HandlePubSubPresence(i, online)
    \/ \E i \in 1..NumStreamers, answer \in Answers : MinuteWatcherRevalidate(i, answer)
    \/ MinuteWatcherPick

SpecWatch == InitWatch /\ [][NextWatch]_vars

NextPick == MinuteWatcherPick

SpecPick == InitPick /\ [][NextPick]_vars

(***************************************************************************)
(* Properties of the watch scheduler.                                      *)
(***************************************************************************)
\* C1: whatever the tracked channels and the priority list, the list returned
\* by pickStreamersToWatch has at most 2 channels and names no channel twice.
C1_AtMostTwoDistinct ==
    /\ Len(watchList) <= 2
    /\ Cardinality(Range(watchList)) = Len(watchList)

\* C1 witness: three candidates, the first of them offered by the streak pass
\* and again by the input-order pass, and a pick that returned two channels.
C1_Witness ==
    /\ watchPriorities = <<watchPriorityStreak, watchPriorityOrder>>
    /\ \A i \in 1..NumStreamers : IsCandidate(streamers[i], now)
    /\ shouldPrioritizeStreak(streamers[1], now)
    /\ watchList = pickStreamersToWatch(streamers, watchPriorities, now)
    /\ Len(watchList) = 2

\* C2: every channel a pick returns is online at that time and went online
\* (its latest offline-to-online transition) at least 30 seconds before it.
C2_PickOnlineAndSettled ==
    [][MinuteWatcherPick =>
        \A k \in 1..Len(watchList') :
            /\ streamers[watchList'[k]].IsOnline
            /\ wentOnline[watchList'[k]] # ZeroTime
            /\ now - wentOnline[watchList'[k]] >= 30]_vars

\* C2 witness: a pick that returned a channel while another channel, online
\* for under 30 seconds, and an offline channel were left out.
C2_Witness ==
    /\ watchList # <<>>
    /\ watchList = pickStreamersToWatch(streamers, watchPriorities, now)
    /\ \E i, j \in 1..NumStreamers :
          /\ streamers[i].IsOnline /\ now - wentOnline[i] < 30
          /\ i \notin Range(watchList)
          /\ ~streamers[j].IsOnline /\ streamers[j].OnlineAt # ZeroTime

(***************************************************************************)
(* Prediction events.  An event object is a record; events holds the       *)
(* objects allocated and the registry maps an event id to the position of  *)
(* its object, so that two handlers can hold the same object.              *)
(***************************************************************************)
\* NewPredictionEvent, for the channel at position streamer; outcomes is what
\* UpdateOutcomes made of the outcomes of the message
NewPredictionEvent(streamer, id, status, outcomes) ==
    [Streamer |-> streamer, EventID |-> id, Status |-> status,
     Outcomes |-> outcomes, Decision |-> NoDecision,
     BetPlaced |-> FALSE, BetConfirmed |-> FALSE, ResultType |-> ""]

\* PredictionEvent.Decide(balance): <<the event after the call, the decision returned>>
Decide(ev, balance) ==
    LET settings == streamers[ev.Streamer].Settings.Bet
        choice   == selectOutcome(ev.Outcomes, settings)
    IN  IF Len(ev.Outcomes) = 0 \/ choice < 0 \/ choice >= Len(ev.Outcomes)
        THEN <<ev, NoDecision>>
        ELSE LET decision ==
                     [Choice    |-> choice,
                      OutcomeID |-> ev.Outcomes[choice + 1].ID,
                      Amount    |-> StakeAmount(balance, settings,
                                                ev.Outcomes[choice + 1].TopPoints)]
             IN  <<[ev EXCEPT !.Decision = decision, !.BetPlaced = decision.Amount > 0],
                   decision>>

RawOutcome(id, users, points, top) ==
    [id |-> id, total_users |-> users, total_points |-> points, top_points |-> top]

(***************************************************************************)
(* Decide on its own: the inputs are drawn by Init, the action calls it.   *)
(***************************************************************************)
MaxBalance == 100       \* balances 0..MaxBalance, and the 10000 of the example
MaxPercentage == 100    \* stake percentages 1..MaxPercentage

CallDecide ==
    /\ \E e \in 1..Len(events) :
          /\ events[e].Decision = NoDecision
          /\ events' = [events EXCEPT
                           ![e] = Decide(@, streamers[events[e].Streamer].ChannelPoints)[1]]
    /\ UNCHANGED <<predictions, timers, wagers, skipped, resultLog, tasks>>
    /\ UNCHANGED watchVars
    /\ UNCHANGED connVars

NoWatchState ==
    /\ now = ZeroTime + 1
    /\ watchPriorities = defaultWatchPriorities
    /\ watchList = <<>>
    /\ wentOnline = [i \in 1..Len(streamers) |-> ZeroTime]

\* one event of two outcomes, 60% and 40% of the voters, with the top stake
\* of the first drawn; the default strategy chooses the first
InitStake ==
    /\ \E top \in {0, 1, 20, 300} :
          events = <<NewPredictionEvent(1, "e1", "ACTIVE", UpdateOutcomes(
                        <<RawOutcome("o1", 6, 600, top), RawOutcome("o2", 4, 400, 7)>>))>>
    /\ \E balance \in (0..MaxBalance) \cup {10000}, percentage \in 1..MaxPercentage,
          maxPoints \in {8, 50000}, stealth \in BOOLEAN :
          streamers = <<NewStreamer(balance, 0, 0, TRUE,
                            [DefaultBet EXCEPT !.Percentage = percentage,
                                               !.MaxPoints = maxPoints,
                                               !.StealthMode = stealth])>>
    /\ predictions = [NoPredictions EXCEPT !["e1"] = 1]
    /\ timers = <<>>
    /\ wagers = <<>>
    /\ skipped = <<>>
    /\ resultLog = <<>>
    /\ tasks = <<>>
    /\ NoConnState
    /\ NoWatchState

NextDecide == CallDecide

SpecStake == InitStake /\ [][NextDecide]_vars

MaxOutcomes == 3        \* outcomes of an event, at most

OutcomeIDs == <<"o1", "o2", "o3", "o4", "o5">>

\* voters, points and top stake of one outcome
OutcomeTotals ==
    {<<users, points, top>> : users \in {4, 6, 7}, points \in {0, 100, 300}, top \in {0, 50}}

RawOutcomeLists ==
    UNION {{[i \in 1..n |-> RawOutcome(OutcomeIDs[i], l[i][1], l[i][2], l[i][3])] :
                l \in [1..n -> OutcomeTotals]} : n \in 1..MaxOutcomes}

\* the strategies drawn, with the gap of SMART
SelectSettings ==
    {[DefaultBet EXCEPT !.Strategy = strategy] :
        strategy \in {StrategyMostVoted, StrategyHighOdds, StrategyPercentage,
                      StrategySmartMoney, StrategySmart, "", "NUMBER_2", "NUMBER_4",
                      "FAVOURITE"}}
      \cup {[DefaultBet EXCEPT !.PercentageGap = 10]}

InitSelect ==
    /\ \E raw \in RawOutcomeLists :
          events = <<NewPredictionEvent(1, "e1", "ACTIVE", UpdateOutcomes(raw))>>
    /\ \E bet \in SelectSettings : streamers = <<NewStreamer(1000, 0, 0, TRUE, bet)>>
    /\ predictions = [NoPredictions EXCEPT !["e1"] = 1]
    /\ timers = <<>>
    /\ wagers = <<>>
    /\ skipped = <<>>
    /\ resultLog = <<>>
    /\ tasks = <<>>
    /\ NoConnState
    /\ NoWatchState

SpecSelect == InitSelect /\ [][NextDecide]_vars

(***************************************************************************)
(* The prediction engine (PubSubClient): one channel, its events, and the  *)
(* handlers of the channel messages, of the user messages and of the       *)
(* placement timers.  Each action is one handler run from start to end.    *)
(***************************************************************************)
MaxEvents == 2          \* event objects allocated, at most
TwitchMinimum == 10     \* the minimum stake the platform accepts

\* the outcome lists that event messages carry, and what UpdateOutcomes
\* makes of each
MessageRaw ==
    <<  <<RawOutcome("o1", 6, 600, 0), RawOutcome("o2", 4, 400, 0)>>,
        <<RawOutcome("o1", 4, 100, 0), RawOutcome("o2", 7, 300, 0)>>,
        <<>>  >>
MessageOutcomes == [k \in 1..Len(MessageRaw) |-> UpdateOutcomes(MessageRaw[k])]

Statuses == {"ACTIVE", "LOCKED", "RESOLVED", "CANCELED"}
ResultTypes == {"WIN", "LOSE", "REFUND"}

recordHistory(history, reason, amount) ==
    [history EXCEPT ![reason] = [Count |-> @.Count + 1, Amount |-> @.Amount + amount]]

\* PredictionEvent.ParseResult: what it returns (it also sets the ResultType)
ParseResult(ev, resultType, pointsWon) ==
    LET placed == IF resultType = "REFUND" THEN 0 ELSE ev.Decision.Amount
        won    == IF resultType = "REFUND" THEN 0 ELSE pointsWon
    IN  [gained |-> won - placed, placed |-> placed, won |-> won]

\* logPredictionResult: the ledger after the result was recorded
ResultHistory(history, resultType, r) ==
    LET h1 == IF r.gained # 0 THEN recordHistory(history, "PREDICTION", r.gained)
              ELSE history
    IN  IF resultType = "REFUND" /\ r.placed > 0
        THEN recordHistory(h1, "REFUND", -r.placed)
        ELSE IF resultType = "WIN" /\ r.won > 0
        THEN recordHistory(h1, "PREDICTION", -r.won)
        ELSE h1

\* logPredictionResult changed the ledger
ResultRecorded(resultType, r) ==
    r.gained # 0 \/ (resultType = "REFUND" /\ r.placed > 0) \/ (resultType = "WIN" /\ r.won > 0)

ResultLine(ev, resultType, r) ==
    [EventID |-> ev.EventID, ResultType |-> resultType,
     Recorded |-> ResultRecorded(resultType, r)]

\* logPredictionResult: the event object after it
ResultLogged(ev, resultType) == [ev EXCEPT !.ResultType = resultType, !.BetConfirmed = TRUE]

\* logPredictionResult: the result line logged and the ledger entries recorded
LogPredictionResult(ev, resultType, pointsWon) ==
    LET r == ParseResult(ev, resultType, pointsWon)
    IN  /\ streamers' = [streamers EXCEPT
                            ![ev.Streamer].History = ResultHistory(@, resultType, r)]
        /\ resultLog' = Append(resultLog, ResultLine(ev, resultType, r))

\* the objects still in the registry, in the order of their allocation: an
\* object that is not (or no longer) registered is referenced by nothing once
\* the handler returned, and is dropped
LiveEvents(preds) == {preds[id] : id \in EventIDs} \ {0}
Collect(evs, preds) ==
    LET live == LiveEvents(preds)
        rank(e) == Cardinality({x \in live : x <= e})
    IN  <<[i \in 1..Cardinality(live) |-> evs[CHOOSE e \in live : rank(e) = i]],
          [id \in EventIDs |-> IF preds[id] = 0 THEN 0 ELSE rank(preds[id])]>>

payoutForOutcome(decision, outcomes, winningID) ==
    IF decision.Amount <= 0 \/ decision.OutcomeID # winningID THEN 0
    ELSE LET totalPoints == SumField([i \in 1..Len(outcomes) |-> outcomes[i].TotalPoints],
                                     Len(outcomes))
             winners     == {i \in 1..Len(outcomes) : outcomes[i].ID = winningID}
             winPoints   == IF winners = {} THEN 0
                            ELSE outcomes[CHOOSE i \in winners : \A j \in winners : j <= i]
                                    .TotalPoints
         IN  IF totalPoints = 0 \/ winPoints = 0 THEN decision.Amount
             ELSE LET payout == FRoundInt(FMul(FOfInt(decision.Amount),
                                               FDiv(FOfInt(totalPoints), FOfInt(winPoints))))
                  IN  IF payout < decision.Amount THEN decision.Amount ELSE payout

\* resolvePredictionFromChannel: the result it logs, or "" when it returns early
ChannelResult(ev, status, winningID) ==
    IF ev.Decision.Amount = 0 \/ ev.ResultType # "" THEN ""
    ELSE IF status \notin {"RESOLVED", "CANCELED", "CANCELLED"} THEN ""
    ELSE IF status # "RESOLVED" THEN "REFUND"
    ELSE IF winningID = "" THEN ""
    ELSE IF ev.Decision.OutcomeID = winningID THEN "WIN"
    ELSE "LOSE"

ChannelPointsWon(ev, resultType, winningID) ==
    IF resultType = "WIN" THEN payoutForOutcome(ev.Decision, ev.Outcomes, winningID) ELSE 0

TimersFor(id) == {k \in 1..Len(timers) : timers[k].EventID = id}
WagersFor(id) == {k \in 1..Len(wagers) : wagers[k].EventID = id}

MaxGains == 1           \* points-earned messages handled, at most

\* placePrediction without the platform minimum
BelowTwitchMinimumNever(amount) == FALSE

\* placePrediction: decision.Amount < 10
BelowTwitchMinimum(amount) == amount < TwitchMinimum

\* placePrediction: the reason logged for a stake under the platform minimum
StakeSkipReason(balance, maxPoints) ==
    IF balance >= TwitchMinimum
    THEN (IF maxPoints < TwitchMinimum THEN "max_points below Twitch minimum"
          ELSE "calculated stake below Twitch minimum")
    ELSE "balance below Twitch minimum"

SkipLine(ev, reason, amount) ==
    [EventID |-> ev.EventID, Reason |-> reason,
     Balance |-> streamers[ev.Streamer].ChannelPoints, Amount |-> amount]

\* processPredictionChannel without the balance check of event-created
BalanceAtOrBelowMinimumNever(s) == FALSE

\* balance <= minimum_points
BalanceAtOrBelowMinimum(s) == s.ChannelPoints <= s.Settings.Bet.MinimumPoints

\* the objects and the registry once the handler returned: c is what Collect
\* makes of them
Collected(c) == events' = c[1] /\ predictions' = c[2]

\* processPredictionChannel, event-created
EventCreated(id, status, k) ==
    /\ status = "ACTIVE"
    /\ Len(timers) < MaxEvents
    /\ ~BalanceAtOrBelowMinimum(streamers[1])
    /\ Collected(Collect(Append(events,
                                NewPredictionEvent(1, id, status, MessageOutcomes[k])),
                         [predictions EXCEPT ![id] = Len(events) + 1]))
    /\ timers' = Append(timers, [EventID |-> id, Fired |-> FALSE])
    /\ UNCHANGED <<streamers, wagers, skipped, resultLog, tasks>>
    /\ UNCHANGED <<now, watchPriorities, watchList, wentOnline>>
    /\ UNCHANGED connVars

\* resolvePredictionFromChannel(existing, eventMap) for the object ev at
\* position e: res is the result it logs, "" when it returns early
resolvePredictionFromChannel(e, ev, res, winningID) ==
    IF res = ""
    THEN /\ events' = [events EXCEPT ![e] = ev]
         /\ UNCHANGED <<streamers, resultLog, predictions>>
    ELSE /\ LogPredictionResult(ev, res, ChannelPointsWon(ev, res, winningID))
         /\ Collected(Collect([events EXCEPT ![e] = ResultLogged(ev, res)],
                              [predictions EXCEPT ![ev.EventID] = 0]))

\* event-updated with the object ev after its Status and Outcomes were set
Updated(e, ev, status, winningID) ==
    resolvePredictionFromChannel(e, ev, ChannelResult(ev, status, winningID), winningID)

\* processPredictionChannel, event-updated, with resolvePredictionFromChannel
EventUpdated(id, status, k, winningID) ==
    /\ predictions[id] # 0
    /\ Updated(predictions[id],
               [events[predictions[id]] EXCEPT !.Status = status,
                                               !.Outcomes = MessageOutcomes[k]],
               status, winningID)
    /\ UNCHANGED <<timers, wagers, skipped, tasks>>
    /\ UNCHANGED <<now, watchPriorities, watchList, wentOnline>>
    /\ UNCHANGED connVars

\* processPredictionUser, prediction-made
PredictionMade(id) ==
    /\ predictions[id] # 0
    /\ events' = [events EXCEPT ![predictions[id]].BetConfirmed = TRUE]
    /\ UNCHANGED <<streamers, predictions, timers, wagers, skipped, resultLog, tasks>>
    /\ UNCHANGED <<now, watchPriorities, watchList, wentOnline>>
    /\ UNCHANGED connVars

\* processPredictionUser, prediction-result
PredictionResult(id, resultType, pointsWon) ==
    /\ predictions[id] # 0
    /\ LogPredictionResult(events[predictions[id]], resultType, pointsWon)
    /\ Collected(Collect([events EXCEPT ![predictions[id]] = ResultLogged(@, resultType)],
                         [predictions EXCEPT ![id] = 0]))
    /\ UNCHANGED <<timers, wagers, skipped, tasks>>
    /\ UNCHANGED <<now, watchPriorities, watchList, wentOnline>>
    /\ UNCHANGED connVars

\* Twitch.MakePrediction(event): the platform accepts the wager of the event's
\* Decision (ok) or the call fails
MakePrediction(ev, ok) ==
    IF ok THEN Append(wagers, [EventID |-> ev.EventID, OutcomeID |-> ev.Decision.OutcomeID,
                               Amount |-> ev.Decision.Amount])
    ELSE wagers

\* placePrediction from the decision on: d is what Decide made of the object
\* at position e, <<the object, the decision>>
Place(e, d, ok) ==
    IF d[2].OutcomeID = ""
    THEN /\ skipped' = <<SkipLine(events[e], "no outcome selected", 0)>>
         /\ events' = [events EXCEPT ![e] = d[1]]
         /\ UNCHANGED <<streamers, wagers>>
    ELSE IF BelowTwitchMinimum(d[2].Amount)
    THEN /\ skipped' = <<SkipLine(events[e],
                            StakeSkipReason(streamers[1].ChannelPoints,
                                            streamers[1].Settings.Bet.MaxPoints),
                            d[2].Amount)>>
         /\ events' = [events EXCEPT ![e] = d[1]]
         /\ UNCHANGED <<streamers, wagers>>
    ELSE /\ wagers' = MakePrediction(d[1], ok)
         /\ events' = [events EXCEPT ![e] =
                IF ok THEN [d[1] EXCEPT !.BetPlaced = TRUE, !.BetConfirmed = TRUE]
                ELSE d[1]]
         /\ streamers' = [streamers EXCEPT ![1].History =
                IF ok THEN recordHistory(@, "PREDICTION", -d[2].Amount) ELSE @]
         /\ UNCHANGED skipped

\* placePrediction, when the timer k fires
PlacePrediction(k, ok) ==
    /\ k \in 1..Len(timers) /\ ~timers[k].Fired
    /\ timers' = [timers EXCEPT ![k].Fired = TRUE]
    /\ LET e == predictions[timers[k].EventID]
           s == streamers[1]
       IN  IF e = 0 THEN UNCHANGED <<events, streamers, wagers, skipped>>
           ELSE IF events[e].Status # "ACTIVE"
           THEN /\ skipped' = <<SkipLine(events[e], "event status", 0)>>
                /\ UNCHANGED <<events, streamers, wagers>>
           ELSE IF BalanceAtOrBelowMinimum(s)
           THEN /\ skipped' = <<SkipLine(events[e], "minimum_points", 0)>>
                /\ UNCHANGED <<events, streamers, wagers>>
           ELSE Place(e, Decide(events[e], s.ChannelPoints), ok)
    /\ UNCHANGED <<predictions, resultLog, tasks>>
    /\ UNCHANGED <<now, watchPriorities, watchList, wentOnline>>
    /\ UNCHANGED connVars

\* processPointsEarned -> handlePubSubGain: the balance of the message replaces
\* the channel's, the gain is recorded in the ledger
PointsEarned(balance, earned) ==
    /\ streamers[1].History["WATCH"].Count < MaxGains
    /\ streamers' = [streamers EXCEPT ![1].ChannelPoints = balance,
                                      ![1].History = recordHistory(@, "WATCH", earned)]
    /\ UNCHANGED <<predictions, events, timers, wagers, skipped, resultLog, tasks>>
    /\ UNCHANGED <<now, watchPriorities, watchList, wentOnline>>
    /\ UNCHANGED connVars

Balances == {5, 60, 1000}

PredictionBets ==
    {DefaultBet, [DefaultBet EXCEPT !.MinimumPoints = 60],
     [DefaultBet EXCEPT !.MaxPoints = 8, !.Percentage = 50]}

InitPrediction ==
    /\ \E bet \in PredictionBets : streamers = <<NewStreamer(1000, 0, 0, TRUE, bet)>>
    /\ NoPredictionState
    /\ NoWatchState

NextPrediction ==
    \/ \E id \in EventIDs, status \in Statuses, k \in 1..Len(MessageRaw) :
          EventCreated(id, status, k)
    \/ \E id \in EventIDs, status \in Statuses, k \in 1..Len(MessageRaw),
          winningID \in {"", "o1", "o2"} : EventUpdated(id, status, k, winningID)
    \/ \E id \in EventIDs : PredictionMade(id)
    \/ \E id \in EventIDs, resultType \in ResultTypes, pointsWon \in {0, 200} :
          PredictionResult(id, resultType, pointsWon)
    \/ \E k \in 1..MaxEvents, ok \in BOOLEAN : PlacePrediction(k, ok)
    \/ \E balance \in Balances : PointsEarned(balance, 10)

SpecPrediction == InitPrediction /\ [][NextPrediction]_vars

(***************************************************************************)
(* The prediction engine with its handlers interleaved: the user topic and *)
(* the channel topic are listened to on different connections, each in its *)
(* own goroutine, and only the registry is guarded by predMu.  A handler   *)
(* is a task that advances one access to the shared state at a time; the   *)
(* objects stay where they are, since a task may hold one that has left    *)
(* the registry.                                                           *)
(***************************************************************************)
Handlers == {"user", "channel"}

NoResult == [gained |-> 0, placed |-> 0, won |-> 0]

IdleTask ==
    [pc |-> "idle", id |-> "", ev |-> 0, status |-> "", winningID |-> "",
     resultType |-> "", pointsWon |-> 0, r |-> NoResult, line |-> 0]

\* processPredictionUser, prediction-result: the lookup under predMu
UserLookup(id, resultType, pointsWon) ==
    /\ tasks["user"].pc = "idle"
    /\ tasks' = [tasks EXCEPT !["user"] =
                    [@ EXCEPT !.pc = IF predictions[id] = 0 THEN "done" ELSE "parse",
                              !.id = id, !.ev = predictions[id],
                              !.resultType = resultType, !.pointsWon = pointsWon]]
    /\ UNCHANGED <<streamers, predictions, events, timers, wagers, skipped, resultLog>>
    /\ UNCHANGED <<now, watchPriorities, watchList, wentOnline>>
    /\ UNCHANGED connVars

\* processPredictionChannel, event-updated: status and outcomes set under predMu
ChannelUpdate(id, status, k, winningID) ==
    /\ tasks["channel"].pc = "idle"
    /\ tasks' = [tasks EXCEPT !["channel"] =
                    [@ EXCEPT !.pc = IF predictions[id] = 0 THEN "done" ELSE "check",
                              !.id = id, !.ev = predictions[id],
                              !.status = status, !.winningID = winningID]]
    /\ events' = IF predictions[id] = 0 THEN events
                 ELSE [events EXCEPT ![predictions[id]].Status = status,
                                     ![predictions[id]].Outcomes = MessageOutcomes[k]]
    /\ UNCHANGED <<streamers, predictions, timers, wagers, skipped, resultLog>>
    /\ UNCHANGED <<now, watchPriorities, watchList, wentOnline>>
    /\ UNCHANGED connVars

\* resolvePredictionFromChannel up to its call of logPredictionResult
ChannelCheck ==
    /\ tasks["channel"].pc = "check"
    /\ LET t   == tasks["channel"]
           res == ChannelResult(events[t.ev], t.status, t.winningID)
       IN  tasks' = [tasks EXCEPT !["channel"] =
                        IF res = "" THEN [@ EXCEPT !.pc = "done"]
                        ELSE [@ EXCEPT !.pc = "parse", !.resultType = res,
                                       !.pointsWon =
                                           ChannelPointsWon(events[t.ev], res, t.winningID)]]
    /\ UNCHANGED <<streamers, predictions, events, timers, wagers, skipped, resultLog>>
    /\ UNCHANGED <<now, watchPriorities, watchList, wentOnline>>
    /\ UNCHANGED connVars

\* logPredictionResult: ParseResult writes the ResultType, the result line is logged
HandlerParseResult(h) ==
    /\ tasks[h].pc = "parse"
    /\ LET t == tasks[h]
           r == ParseResult(events[t.ev], t.resultType, t.pointsWon)
       IN  /\ events' = [events EXCEPT ![t.ev] = ResultLogged(@, t.resultType)]
           /\ resultLog' = Append(resultLog,
                  [ResultLine(events[t.ev], t.resultType, r) EXCEPT !.Recorded = FALSE])
           /\ tasks' = [tasks EXCEPT ![h] =
                           [@ EXCEPT !.pc = "record", !.r = r, !.line = Len(resultLog) + 1]]
    /\ UNCHANGED <<streamers, predictions, timers, wagers, skipped>>
    /\ UNCHANGED <<now, watchPriorities, watchList, wentOnline>>
    /\ UNCHANGED connVars

\* logPredictionResult: the result is recorded in the ledger of the channel
HandlerRecordHistory(h) ==
    /\ tasks[h].pc = "record"
    /\ LET t == tasks[h]
       IN  /\ streamers' = [streamers EXCEPT ![events[t.ev].Streamer].History =
                               ResultHistory(@, t.resultType, t.r)]
           /\ resultLog' = [resultLog EXCEPT
                               ![t.line].Recorded = ResultRecorded(t.resultType, t.r)]
    /\ tasks' = [tasks EXCEPT ![h].pc = "delete"]
    /\ UNCHANGED <<predictions, events, timers, wagers, skipped>>
    /\ UNCHANGED <<now, watchPriorities, watchList, wentOnline>>
    /\ UNCHANGED connVars

\* delete(p.predictions, eventID) under predMu
HandlerDelete(h) ==
    /\ tasks[h].pc = "delete"
    /\ predictions' = [predictions EXCEPT ![tasks[h].id] = 0]
    /\ tasks' = [tasks EXCEPT ![h].pc = "done"]
    /\ UNCHANGED <<streamers, events, timers, wagers, skipped, resultLog>>
    /\ UNCHANGED <<now, watchPriorities, watchList, wentOnline>>
    /\ UNCHANGED connVars

\* an event was created and registered, its placement timer is pending, and
\* no message is being handled
InitConc ==
    /\ streamers = <<NewStreamer(1000, 0, 0, TRUE, DefaultBet)>>
    /\ \E k \in {1, 2} :
          events = <<NewPredictionEvent(1, "e1", "ACTIVE", MessageOutcomes[k])>>
    /\ predictions = [NoPredictions EXCEPT !["e1"] = 1]
    /\ timers = <<[EventID |-> "e1", Fired |-> FALSE]>>
    /\ wagers = <<>>
    /\ skipped = <<>>
    /\ resultLog = <<>>
    /\ tasks = [h \in Handlers |-> IdleTask]
    /\ NoConnState
    /\ NoWatchState

NextConc ==
    \/ \E ok \in BOOLEAN : PlacePrediction(1, ok)
    \/ \E id \in EventIDs, resultType \in ResultTypes, pointsWon \in {0, 200} :
          UserLookup(id, resultType, pointsWon)
    \/ \E id \in EventIDs, status \in Statuses, k \in 1..Len(MessageRaw),
          winningID \in {"", "o1", "o2"} : ChannelUpdate(id, status, k, winningID)
    \/ ChannelCheck
    \/ \E h \in Handlers : HandlerParseResult(h)
    \/ \E h \in Handlers : HandlerRecordHistory(h)
    \/ \E h \in Handlers : HandlerDelete(h)

SpecConc == InitConc /\ [][NextConc]_vars

(***************************************************************************)
(* Properties of the decision.  They are stated on the integers of the     *)
(* event (voters, points, top stakes) in exact arithmetic: a ratio is a    *)
(* pair <<numerator, denominator>> with a positive denominator.            *)
(***************************************************************************)
RatLess(a, b) == a[1] * b[2] < b[1] * a[2]

TotalUsersOf(outcomes) ==
    SumField([i \in 1..Len(outcomes) |-> outcomes[i].TotalUsers], Len(outcomes))
TotalPointsOf(outcomes) ==
    SumField([i \in 1..Len(outcomes) |-> outcomes[i].TotalPoints], Len(outcomes))

\* odds: total event stake over the stake of the outcome, 0 when nothing is staked on it
ExactOdds(outcomes, i) ==
    IF outcomes[i].TotalPoints > 0
    THEN <<TotalPointsOf(outcomes), outcomes[i].TotalPoints>> ELSE <<0, 1>>

\* odds as a percentage: 100 / odds, 0 when the odds are 0
ExactOddsPercentage(outcomes, i) ==
    IF outcomes[i].TotalPoints > 0
    THEN <<100 * outcomes[i].TotalPoints, TotalPointsOf(outcomes)>> ELSE <<0, 1>>

\* i (0-based) is the lowest index of maximum value among the ratios vals
IsFirstMaximum(i, vals) ==
    /\ i \in 0..(Len(vals) - 1)
    /\ \A j \in 1..Len(vals) : ~RatLess(vals[i + 1], vals[j])
    /\ \A j \in 1..i : RatLess(vals[j], vals[i + 1])

IsMostVoted(outcomes, i) ==
    IsFirstMaximum(i, [k \in 1..Len(outcomes) |-> <<outcomes[k].TotalUsers, 1>>])
IsHighOdds(outcomes, i) ==
    IsFirstMaximum(i, [k \in 1..Len(outcomes) |-> ExactOdds(outcomes, k)])
IsPercentage(outcomes, i) ==
    IsFirstMaximum(i, [k \in 1..Len(outcomes) |-> ExactOddsPercentage(outcomes, k)])
IsSmartMoney(outcomes, i) ==
    IsFirstMaximum(i, [k \in 1..Len(outcomes) |-> <<outcomes[k].TopPoints, 1>>])

Decided(ev) == ev.Decision.OutcomeID # ""
BetOf(ev) == streamers[ev.Streamer].Settings.Bet

\* C8: the stake decided is floor(balance * percentage / 100), capped at the
\* max stake, and in stealth mode, when that is at least the top stake of the
\* chosen outcome, max(top stake - 1, 1).
C8_StakeSizing ==
    \A e \in 1..Len(events) :
        Decided(events[e]) =>
            LET ev     == events[e]
                bet    == BetOf(ev)
                stake  == (streamers[ev.Streamer].ChannelPoints * bet.Percentage) \div 100
                capped == Min(stake, bet.MaxPoints)
                top    == ev.Outcomes[ev.Decision.Choice + 1].TopPoints
            IN  ev.Decision.Amount =
                    IF bet.StealthMode /\ capped >= top THEN Max(top - 1, 1) ELSE capped

\* C9: MOST_VOTED selects the lowest index of maximum voter count, HIGH_ODDS of
\* maximum odds, PERCENTAGE of maximum odds-as-percentage, SMART_MONEY of
\* maximum top stake.
C9_ArgMaxLowestIndex ==
    \A e \in 1..Len(events) :
        Decided(events[e]) =>
            LET ev == events[e]
                strategy == BetOf(ev).Strategy
                choice == ev.Decision.Choice
            IN  /\ strategy = StrategyMostVoted  => IsMostVoted(ev.Outcomes, choice)
                /\ strategy = StrategyHighOdds   => IsHighOdds(ev.Outcomes, choice)
                /\ strategy = StrategyPercentage => IsPercentage(ev.Outcomes, choice)
                /\ strategy = StrategySmartMoney => IsSmartMoney(ev.Outcomes, choice)

\* C9 witness: a decision under one of the four strategies where the maximum
\* is reached by two outcomes, the first of them not at index 0, and a third
\* outcome has another value.
C9_Witness ==
    \E e \in 1..Len(events) :
        /\ Decided(events[e])
        /\ BetOf(events[e]).Strategy = StrategyHighOdds
        /\ Len(events[e].Outcomes) = 3
        /\ events[e].Decision.Choice = 1
        /\ events[e].Outcomes[2].TotalPoints = events[e].Outcomes[3].TotalPoints
        /\ events[e].Outcomes[1].TotalPoints > events[e].Outcomes[2].TotalPoints

\* the two largest voter counts of the outcomes differ by less than gap
\* percent of all voters
SharesWithinGap(outcomes, gap) ==
    \E i, j \in 1..Len(outcomes) :
        /\ i # j
        /\ \A k \in 1..Len(outcomes) : outcomes[k].TotalUsers <= outcomes[i].TotalUsers
        /\ \A k \in 1..Len(outcomes) \ {i} : outcomes[k].TotalUsers <= outcomes[j].TotalUsers
        /\ (outcomes[i].TotalUsers - outcomes[j].TotalUsers) * 100
              < gap * TotalUsersOf(outcomes)

\* C10: under SMART with two outcomes or more, the choice is the HIGH_ODDS
\* choice when the two largest voter shares differ by strictly less than the
\* gap, and the MOST_VOTED choice otherwise.
C10_SmartGap ==
    \A e \in 1..Len(events) :
        (/\ Decided(events[e])
         /\ BetOf(events[e]).Strategy \in {StrategySmart, ""}
         /\ Len(events[e].Outcomes) >= 2) =>
            IF SharesWithinGap(events[e].Outcomes, BetOf(events[e]).PercentageGap)
            THEN IsHighOdds(events[e].Outcomes, events[e].Decision.Choice)
            ELSE IsMostVoted(events[e].Outcomes, events[e].Decision.Choice)

(***************************************************************************)
(* Properties of the prediction engine.                                    *)
(***************************************************************************)
ResultsFor(id) == {k \in 1..Len(resultLog) : resultLog[k].EventID = id}

\* C3: once a result was logged for an event id, no later step (a duplicate
\* prediction-result, a channel status RESOLVED or CANCELED) logs another
\* result for that id: the tag written keeps its value and the ledger gets no
\* further entry.
C3_LaterResultIsNoOp ==
    [][\A id \in EventIDs :
          ResultsFor(id) # {} =>
              /\ ResultsFor(id)' = ResultsFor(id)
              /\ \A r \in {"PREDICTION", "REFUND"} :
                    streamers'[1].History[r] = streamers[1].History[r]
                      \/ Len(wagers') > Len(wagers)]_vars

\* C5: for each event id exactly one placement timer is created and at most
\* one wager is submitted, whatever the channel messages are.
C5_OnePlacementPerEvent ==
    \A id \in EventIDs :
        /\ Cardinality(TimersFor(id)) <= 1
        /\ Cardinality(WagersFor(id)) <= 1
        /\ predictions[id] # 0 => Cardinality(TimersFor(id)) = 1

C7_StakeBounds ==
    /\ \A k \in 1..Len(wagers) :
          /\ wagers[k].Amount >= 10
          /\ wagers[k].Amount <= streamers[1].Settings.Bet.MaxPoints
    /\ \A k \in 1..Len(skipped) :
          skipped[k].Reason \notin {"event status", "minimum_points", "no outcome selected"} =>
              /\ skipped[k].Amount < 10
              /\ skipped[k].Reason =
                    IF skipped[k].Balance < 10 THEN "balance below Twitch minimum"
                    ELSE IF streamers[1].Settings.Bet.MaxPoints < 10
                    THEN "max_points below Twitch minimum"
                    ELSE "calculated stake below Twitch minimum"

\* C7 witness: a wager of at least 10 was submitted, and a later attempt
\* computed a stake from 1 to 9 out of a balance of 10 or more, and skipped.
C7_Witness ==
    /\ wagers # <<>>
    /\ skipped # <<>>
    /\ skipped[1].Reason = "calculated stake below Twitch minimum"
    /\ skipped[1].Amount \in 1..9
    /\ skipped[1].Balance >= 10

\* C4: whatever the interleaving of the user result handler and of the channel
\* resolution handler, the ResultType of an event is written at most once and
\* its result is recorded in the ledger at most once.
C4_ResolvedOnceInterleaved ==
    \A id \in EventIDs :
        /\ Cardinality(ResultsFor(id)) <= 1
        /\ Cardinality({k \in ResultsFor(id) : resultLog[k].Recorded}) <= 1

(***************************************************************************)
(* Properties of the selection, continued.                                 *)
(***************************************************************************)
\* two outcomes, one with 60% of the voters and the other with 40%
IsSixtyForty(outcomes) ==
    /\ Len(outcomes) = 2
    /\ TotalUsersOf(outcomes) > 0
    /\ \E i \in 1..2 : outcomes[i].TotalUsers * 100 = 60 * TotalUsersOf(outcomes)

SmartWithGap(ev, gap) ==
    /\ Decided(ev)
    /\ BetOf(ev).Strategy \in {StrategySmart, ""}
    /\ BetOf(ev).PercentageGap = gap

\* C11 as stated: under SMART with a gap of 20, two outcomes of 60% and 40% of
\* the voters get the HIGH_ODDS choice.
C11_BoundaryFallsBack ==
    \A e \in 1..Len(events) :
        (SmartWithGap(events[e], 20) /\ IsSixtyForty(events[e].Outcomes)) =>
            IsHighOdds(events[e].Outcomes, events[e].Decision.Choice)

\* C11 amended: under SMART with a gap of 20, two outcomes of 60% and 40% of
\* the voters get the MOST_VOTED choice: the difference of the shares equals
\* the gap and is not strictly below it.
C11_BoundaryMostVoted ==
    \A e \in 1..Len(events) :
        (SmartWithGap(events[e], 20) /\ IsSixtyForty(events[e].Outcomes)) =>
            IsMostVoted(events[e].Outcomes, events[e].Decision.Choice)

\* C11 witness: a 60/40 event decided under SMART with a gap of 20 where the
\* outcome of most voters is not the one of highest odds, and is chosen.
C11_Witness ==
    \E e \in 1..Len(events) :
        /\ SmartWithGap(events[e], 20) /\ IsSixtyForty(events[e].Outcomes)
        /\ events[e].Outcomes[1].TotalUsers > events[e].Outcomes[2].TotalUsers
        /\ events[e].Outcomes[1].TotalPoints > events[e].Outcomes[2].TotalPoints
        /\ events[e].Outcomes[2].TotalPoints > 0
        /\ events[e].Decision.Choice = 0

\* the 13 strategy tags that selectOutcome has a case for
RecognisedStrategies ==
    {StrategyMostVoted, StrategyHighOdds, StrategyPercentage, StrategySmartMoney,
     StrategySmart} \cup Range(StrategyNumbers)

\* the largest voter count and the largest among the others differ by more
\* than gap percent of all voters
SharesBeyondGap(outcomes, gap) ==
    \E i \in 1..Len(outcomes) :
        /\ \A k \in 1..Len(outcomes) : outcomes[k].TotalUsers <= outcomes[i].TotalUsers
        /\ \A k \in 1..Len(outcomes) \ {i} :
              (outcomes[i].TotalUsers - outcomes[k].TotalUsers) * 100
                  > gap * TotalUsersOf(outcomes)

\* C12 as stated: with an empty strategy tag, or one that is not among the 13
\* recognised, the choice is the HIGH_ODDS choice.
C12_EmptyOrUnknownIsHighOdds ==
    \A e \in 1..Len(events) :
        (Decided(events[e]) /\ BetOf(events[e]).Strategy \notin RecognisedStrategies) =>
            IsHighOdds(events[e].Outcomes, events[e].Decision.Choice)

\* C12 amended: with a strategy tag that is not empty and not among the 13
\* recognised, the choice is the HIGH_ODDS choice (lowest index on ties); an
\* empty tag is treated as SMART: HIGH_ODDS when the two largest voter shares
\* differ by less than the gap, MOST_VOTED when they differ by more.
C12_UnknownIsHighOddsEmptyIsSmart ==
    \A e \in 1..Len(events) :
        Decided(events[e]) =>
            LET ev  == events[e]
                tag == BetOf(ev).Strategy
            IN  /\ (tag \notin RecognisedStrategies /\ tag # "") =>
                       IsHighOdds(ev.Outcomes, ev.Decision.Choice)
                /\ (tag = "" /\ Len(ev.Outcomes) >= 2) =>
                       /\ SharesWithinGap(ev.Outcomes, BetOf(ev).PercentageGap) =>
                              IsHighOdds(ev.Outcomes, ev.Decision.Choice)
                       /\ SharesBeyondGap(ev.Outcomes, BetOf(ev).PercentageGap) =>
                              IsMostVoted(ev.Outcomes, ev.Decision.Choice)

\* C12 witness: an unrecognised tag decided an event of three outcomes where
\* the highest odds are shared by the second and the third outcome and the
\* first has the most voters; the second is chosen.
C12_Witness ==
    \E e \in 1..Len(events) :
        /\ Decided(events[e])
        /\ BetOf(events[e]).Strategy = "FAVOURITE"
        /\ Len(events[e].Outcomes) = 3
        /\ events[e].Outcomes[1].TotalUsers > events[e].Outcomes[2].TotalUsers
        /\ events[e].Outcomes[1].TotalUsers > events[e].Outcomes[3].TotalUsers
        /\ events[e].Outcomes[1].TotalPoints > events[e].Outcomes[2].TotalPoints
        /\ events[e].Outcomes[2].TotalPoints = events[e].Outcomes[3].TotalPoints
        /\ events[e].Outcomes[2].TotalPoints > 0
        /\ events[e].Decision.Choice = 1

\* C12 witness of the empty tag: MOST_VOTED was chosen where HIGH_ODDS differs
C12_WitnessEmpty ==
    \E e \in 1..Len(events) :
        /\ Decided(events[e])
        /\ BetOf(events[e]).Strategy = ""
        /\ Len(events[e].Outcomes) = 2
        /\ events[e].Decision.Choice = 0
        /\ ~IsHighOdds(events[e].Outcomes, 0)

(***************************************************************************)
(* payoutForOutcome on its own: the action draws a decision, the stakes of *)
(* two outcomes and the winning outcome id, and calls it once.             *)
(***************************************************************************)
PayoutStakes == {0, 10, 15, 100, 250}
PayoutPoints == {0, 6, 43, 400, 600, 1000}

CallPayoutForOutcome(stake, chosen, points1, points2, winningID) ==
    /\ returned = <<>>
    /\ LET decision == [Choice |-> IF chosen = "o1" THEN 0 ELSE 1, OutcomeID |-> chosen,
                        Amount |-> stake]
           outcomes == <<[ID |-> "o1", TotalPoints |-> points1],
                         [ID |-> "o2", TotalPoints |-> points2]>>
       IN  returned' = <<[decision |-> decision, outcomes |-> outcomes,
                          winningID |-> winningID,
                          payout |-> payoutForOutcome(decision, outcomes, winningID)]>>
    /\ UNCHANGED <<topics, conns, stop>>
    /\ UNCHANGED predictionVars
    /\ UNCHANGED watchVars

InitPayout ==
    /\ streamers = <<NewStreamer(1000, 0, 0, TRUE, DefaultBet)>>
    /\ NoPredictionState
    /\ NoWatchState

NextPayout ==
    \E stake \in PayoutStakes, chosen \in {"o1", "o2"}, points1 \in PayoutPoints,
       points2 \in PayoutPoints, winningID \in {"", "o1", "o2", "o3"} :
        CallPayoutForOutcome(stake, chosen, points1, points2, winningID)

SpecPayout == InitPayout /\ [][NextPayout]_vars

\* n / d rounded to the nearest integer, halves away from zero (n >= 0, d > 0)
RoundDiv(n, d) == (2 * n + d) \div (2 * d)

\* C13: the payout is 0 when the decision's outcome is not the winner; for a
\* winning decision it is the stake when the total stake of the event or the
\* stake on the winner is 0, and round(stake * total / winner stake), at least
\* the stake, otherwise.
C13_Payout ==
    \A k \in 1..Len(returned) :
        LET c     == returned[k]
            stake == c.decision.Amount
            total == c.outcomes[1].TotalPoints + c.outcomes[2].TotalPoints
            win   == IF c.winningID = "o1" THEN c.outcomes[1].TotalPoints
                     ELSE c.outcomes[2].TotalPoints
        IN  c.payout =
                IF c.decision.OutcomeID # c.winningID THEN 0
                ELSE IF total = 0 \/ win = 0 THEN stake
                ELSE Max(stake, RoundDiv(stake * total, win))

(***************************************************************************)
(* UpdateOutcomes on voter counts from 0 on: an event is created with the  *)
(* outcomes of its message, and event-updated messages replace them.       *)
(***************************************************************************)
MaxShareOutcomes == 3      \* outcomes of an event, at most
ShareUsers == {0, 1, 2, 3, 7}

ShareRawLists ==
    UNION {{[i \in 1..n |-> RawOutcome(OutcomeIDs[i], users[i], 100, 0)] :
                users \in [1..n -> ShareUsers]} : n \in 1..MaxShareOutcomes}

\* processPredictionChannel, event-updated of an open event that has no decision:
\* existing.Status = status, existing.UpdateOutcomes(outcomes)
EventUpdatedOutcomes(id, raw) ==
    /\ predictions[id] # 0
    /\ events[predictions[id]].Decision = NoDecision
    /\ events' = [events EXCEPT ![predictions[id]].Status = "ACTIVE",
                                ![predictions[id]].Outcomes = UpdateOutcomes(raw)]
    /\ UNCHANGED <<streamers, predictions, timers, wagers, skipped, resultLog, tasks>>
    /\ UNCHANGED watchVars
    /\ UNCHANGED connVars

InitShares ==
    /\ streamers = <<NewStreamer(1000, 0, 0, TRUE, DefaultBet)>>
    /\ \E raw \in ShareRawLists :
          events = <<NewPredictionEvent(1, "e1", "ACTIVE", UpdateOutcomes(raw))>>
    /\ predictions = [NoPredictions EXCEPT !["e1"] = 1]
    /\ timers = <<[EventID |-> "e1", Fired |-> FALSE]>>
    /\ wagers = <<>>
    /\ skipped = <<>>
    /\ resultLog = <<>>
    /\ tasks = <<>>
    /\ NoConnState
    /\ NoWatchState

NextShares == \E id \in EventIDs, raw \in ShareRawLists : EventUpdatedOutcomes(id, raw)

SpecShares == InitShares /\ [][NextShares]_vars

\* the float sum of the voter shares, in the order of the outcomes
RECURSIVE SumShares(_, _)
SumShares(outcomes, n) ==
    IF n = 0 THEN FZero ELSE FAdd(SumShares(outcomes, n - 1), outcomes[n].PercentageUsers)

\* the rounding allowed on a sum of shares: 1 / ShareTolerance
ShareTolerance == 1000000

\* C14: the voter shares of the outcomes of every event sum to 100, up to
\* rounding, when the event has voters, and each share is 0 when it has none.
C14_SharesSumTo100 ==
    \A e \in 1..Len(events) :
        LET outcomes == events[e].Outcomes
        IN  IF TotalUsersOf(outcomes) > 0
            THEN FLess(FAbsSub(SumShares(outcomes, Len(outcomes)), FOfInt(100)),
                       FDiv(FOfInt(1), FOfInt(ShareTolerance)))
            ELSE \A i \in 1..Len(outcomes) : outcomes[i].PercentageUsers = FZero

\* C14 witness: an event whose three outcomes have 1, 2 and 0 voters after an
\* event-updated message (shares 33.3, 66.7 and 0).
C14_Witness ==
    \E e \in 1..Len(events) :
        /\ Len(events[e].Outcomes) = 3
        /\ events[e].Outcomes[1].TotalUsers = 1
        /\ events[e].Outcomes[2].TotalUsers = 2
        /\ events[e].Outcomes[3].TotalUsers = 0
        /\ events[e].Outcomes[3].PercentageUsers = FZero
        /\ events[e].Outcomes[1].PercentageUsers # FZero

\* C14 witness of an event without voters
C14_WitnessNoVoters ==
    \E e \in 1..Len(events) :
        /\ Len(events[e].Outcomes) = 2
        /\ TotalUsersOf(events[e].Outcomes) = 0

(***************************************************************************)
(* The placement delay.  A float64 that may be negative is a record        *)
(* [neg, abs] of its sign and its magnitude; zero has neg = FALSE.         *)
(***************************************************************************)
Signed(neg, abs) == [neg |-> neg /\ abs # FZero, abs |-> abs]

\* float64(n) for an int n
SOfInt(n) == IF n < 0 THEN Signed(TRUE, FOfInt(-n)) ELSE Signed(FALSE, FOfInt(n))

\* the float64 that the number num/den of a configuration or of a message is
\* parsed to (den > 0)
SOfRatio(num, den) ==
    Signed(num < 0, FDiv(FOfInt(IF num < 0 THEN -num ELSE num), FOfInt(den)))

\* x < y
SLess(x, y) ==
    IF x.neg # y.neg THEN x.neg
    ELSE IF x.neg THEN FLess(y.abs, x.abs)
    ELSE FLess(x.abs, y.abs)

\* x - y
SSub(x, y) ==
    IF x.neg # y.neg /\ y.abs # FZero THEN Signed(x.neg, FAdd(x.abs, y.abs))
    ELSE IF FLess(x.abs, y.abs) THEN Signed(~x.neg, FAbsSub(x.abs, y.abs))
    ELSE Signed(x.neg, FAbsSub(x.abs, y.abs))

\* x * y
SMul(x, y) == Signed(x.neg # y.neg, FMul(x.abs, y.abs))

\* int64(x): the integer part, towards zero
STruncInt(x) == IF x.neg THEN -FTruncInt(x.abs) ELSE FTruncInt(x.abs)

DelayModeFromStart  == "FROM_START"
DelayModeFromEnd    == "FROM_END"
DelayModePercentage == "PERCENTAGE"

\* a time.Duration of one second: the model counts durations in milliseconds
TimeSecond == 1000

\* PredictionWindowSeconds without its switch on the mode
PredictionWindowSecondsDelay(bet, predictionWindow) == bet.Delay

\* Streamer.PredictionWindowSeconds for the wager settings bet of the channel
PredictionWindowSeconds(bet, predictionWindow) ==
    CASE bet.DelayMode = DelayModeFromStart ->
            IF SLess(bet.Delay, predictionWindow) THEN bet.Delay ELSE predictionWindow
      [] bet.DelayMode = DelayModeFromEnd ->
            IF SLess(SOfInt(0), SSub(predictionWindow, bet.Delay))
            THEN SSub(predictionWindow, bet.Delay) ELSE SOfInt(0)
      [] bet.DelayMode = DelayModePercentage -> SMul(predictionWindow, bet.Delay)
      [] OTHER -> predictionWindow

\* PredictionEvent.ClosingAfter(now) of an event created at createdAt (times in
\* seconds) with the window windowSeconds: the time.Duration to wait
ClosingAfter(createdAt, windowSeconds, t) ==
    LET elapsed   == SOfInt(t - createdAt)
        remaining == SSub(windowSeconds, elapsed)
    IN  IF SLess(remaining, SOfInt(0)) THEN 0
        ELSE STruncInt(SMul(remaining, SOfInt(TimeSecond)))

(***************************************************************************)
(* SpecWindow: event-created on a channel whose delay and delay mode are   *)
(* drawn, for a message whose window and creation time are drawn.          *)
(***************************************************************************)
WindowDelayHalves == {-6, 0, 1, 12, 400}    \* the delays, in half seconds
WindowModes == {DelayModeFromStart, DelayModeFromEnd, DelayModePercentage,
                "", "FROM_MIDDLE"}
MessageWindows == {0, 30, 120}               \* prediction_window_seconds
WindowAges == {-5, 0, 10, 40}               \* now - created_at, in seconds

WindowBet(halves, mode) ==
    [Delay |-> SOfRatio(halves, 2), DelayMode |-> mode] @@ DefaultBet

\* the end of event-created: the object is registered and time.AfterFunc(wait)
\* is armed
ScheduleAfter(id, window, createdAt, adjusted, wait) ==
    /\ Collected(Collect(Append(events,
                                NewPredictionEvent(1, id, "ACTIVE", MessageOutcomes[1])),
                         [predictions EXCEPT ![id] = Len(events) + 1]))
    /\ timers' = Append(timers, [EventID |-> id, Fired |-> FALSE, Wait |-> wait])
    /\ returned' = <<[window |-> window, createdAt |-> createdAt,
                      adjusted |-> adjusted, wait |-> wait]>>

\* event-created from the adjusted window on
CreatedWithWindow(id, window, createdAt, adjusted) ==
    ScheduleAfter(id, window, createdAt, adjusted, ClosingAfter(createdAt, adjusted, now))

\* processPredictionChannel, event-created, with the window and the wait
EventCreatedWindow(id, window, createdAt) ==
    /\ returned = <<>>
    /\ ~BalanceAtOrBelowMinimum(streamers[1])
    /\ CreatedWithWindow(id, window, createdAt,
                         PredictionWindowSeconds(streamers[1].Settings.Bet,
                                                 SOfInt(window)))
    /\ UNCHANGED <<streamers, wagers, skipped, resultLog, tasks>>
    /\ UNCHANGED <<now, watchPriorities, watchList, wentOnline>>
    /\ UNCHANGED <<topics, conns, stop>>

InitWindow ==
    /\ \E halves \in WindowDelayHalves, mode \in WindowModes :
          streamers = <<NewStreamer(1000, 0, 0, TRUE, WindowBet(halves, mode))>>
    /\ NoPredictionState
    /\ now = PickNow
    /\ watchPriorities = defaultWatchPriorities
    /\ watchList = <<>>
    /\ wentOnline = <<ZeroTime>>

NextWindow ==
    \E window \in MessageWindows, age \in WindowAges :
        EventCreatedWindow("e1", window, now - age)

SpecWindow == InitWindow /\ [][NextWindow]_vars

\* the adjusted window in half seconds, in exact arithmetic
ExactWindowHalves(halves, mode, window) ==
    CASE mode = "FROM_START" -> Min(halves, 2 * window)
      [] mode = "FROM_END"   -> Max(2 * window - halves, 0)
      [] mode = "PERCENTAGE" -> window * halves
      [] OTHER               -> 2 * window

\* C15: the adjusted window is min(delay, window) for FROM_START,
\* max(window - delay, 0) for FROM_END, window * delay for PERCENTAGE and the
\* window itself for any other mode; the placement is armed
\* max(0, adjusted window - (now - created_at)) after the message was handled.
C15_AdjustedWindow ==
    \A halves \in WindowDelayHalves :
        (/\ returned # <<>>
         /\ streamers[1].Settings.Bet.Delay = SOfRatio(halves, 2))
        => LET r     == returned[1]
               exact == ExactWindowHalves(halves, streamers[1].Settings.Bet.DelayMode,
                                          r.window)
           IN  /\ r.adjusted = SOfRatio(exact, 2)
               /\ r.wait = Max(0, exact * (TimeSecond \div 2)
                                  - (now - r.createdAt) * TimeSecond)
               /\ timers[Len(timers)].Wait = r.wait

\* a window of 120 s with 6 s FROM_END, handled 10 s after the creation: the
\* placement is armed 104 s later
C15_Witness ==
    /\ returned # <<>>
    /\ streamers[1].Settings.Bet.DelayMode = DelayModeFromEnd
    /\ streamers[1].Settings.Bet.Delay = SOfInt(6)
    /\ returned[1].window = 120
    /\ now - returned[1].createdAt = 10
    /\ returned[1].wait = 104 * TimeSecond

(***************************************************************************)
(* The subscriptions.  A topic "<prefix>.<id>" is the record of its prefix *)
(* and of the id it was formatted with.                                    *)
(***************************************************************************)
Topic(prefix, id) == [prefix |-> prefix, id |-> id]

ChannelFlags == {"FollowRaid", "MakePredictions", "ClaimMoments", "CommunityGoals"}

\* a tracked channel with the channel id and the settings that are set in flags
Channel(id, flags) ==
    [ChannelID |-> id] @@
    [NewStreamer(1000, 0, 0, TRUE, DefaultBet) EXCEPT
        !.Settings = [FollowRaid      |-> "FollowRaid" \in flags,
                      MakePredictions |-> "MakePredictions" \in flags,
                      ClaimMoments    |-> "ClaimMoments" \in flags,
                      CommunityGoals  |-> "CommunityGoals" \in flags] @@ @]

\* addTopic that appends whatever it is given
addTopicAlways(list, topic) == Append(list, topic)

\* addTopic of buildTopics: seen is the set of the topics of the list
addTopic(list, topic) ==
    IF \E i \in 1..Len(list) : list[i] = topic THEN list ELSE Append(list, topic)

\* addTopic when the condition holds
addTopicIf(cond, list, topic) == IF cond THEN addTopic(list, topic) ELSE list

\* the body of the second loop of buildTopics for the channel s
channelTopics(list, s) ==
    IF s.ChannelID = "" THEN list
    ELSE addTopicIf(s.Settings.CommunityGoals,
           addTopicIf(s.Settings.ClaimMoments,
             addTopicIf(s.Settings.MakePredictions,
               addTopicIf(s.Settings.FollowRaid,
                 addTopic(list, Topic("video-playback-by-id", s.ChannelID)),
                 Topic("raid", s.ChannelID)),
               Topic("predictions-channel-v1", s.ChannelID)),
             Topic("community-moments-channel-v1", s.ChannelID)),
           Topic("community-points-channel-v1", s.ChannelID))

\* the second loop of buildTopics over the channels i..Len(chans), list being
\* the topics appended so far (it is evaluated before the next iteration)
RECURSIVE allChannelTopics(_, _, _)
allChannelTopics(list, chans, i) ==
    IF i > Len(chans) \/ Len(list) < 0 THEN list
    ELSE allChannelTopics(channelTopics(list, chans[i]), chans, i + 1)

\* PubSubClient.buildTopics for the user id of the login: the error and the list
buildTopics(userID, chans) ==
    IF userID = "" THEN [err |-> TRUE, topics |-> <<>>]
    ELSE [err |-> FALSE,
          topics |->
            allChannelTopics(
                addTopicIf(\E i \in 1..Len(chans) : chans[i].Settings.MakePredictions,
                           addTopic(<<>>, Topic("community-points-user-v1", userID)),
                           Topic("predictions-user-v1", userID)),
                chans, 1)]

\* chunkTopics that makes one batch of everything
chunkTopicsWhole(list, chunkSize) == <<list>>

\* the loop of chunkTopics when topics is what follows the first done topics
\* of the list
RECURSIVE chunkLoop(_, _, _)
chunkLoop(list, chunkSize, done) ==
    IF Len(list) - done <= 0 THEN <<>>
    ELSE IF Len(list) - done < chunkSize THEN <<SubSeq(list, done + 1, Len(list))>>
    ELSE <<SubSeq(list, done + 1, done + chunkSize)>>
         \o chunkLoop(list, chunkSize, done + chunkSize)

\* chunkTopics(topics, chunkSize)
chunkTopics(list, chunkSize) ==
    IF chunkSize <= 0 THEN <<list>> ELSE chunkLoop(list, chunkSize, 0)

ChunkSize == 50     \* the batch size that Start passes to chunkTopics

\* the connection loop run(idx, batch, stop) as the go statement leaves it
NewLoop(idx, batch) ==
    [idx |-> idx, topics |-> batch, pc |-> "top", open |-> FALSE, sent |-> <<>>,
     lastPong |-> ZeroTime, pingAt |-> ZeroTime, wakeAt |-> ZeroTime,
     reader |-> "none", cause |-> ""]

\* the loop of Start over the batches
Launched(batches) == [i \in 1..Len(batches) |-> NewLoop(i, batches[i])]

\* Start from the result of buildTopics on
Started(built) ==
    IF built.err THEN UNCHANGED <<topics, conns>>
    ELSE /\ topics' = built.topics
         /\ conns' = Launched(chunkTopics(built.topics, ChunkSize))

\* PubSubClient.Start(stop) when the login has the user id userID
Start(userID) ==
    /\ topics = <<>>
    /\ conns = <<>>
    /\ Started(buildTopics(userID, streamers))
    /\ UNCHANGED <<stop, returned>>
    /\ UNCHANGED predictionVars
    /\ UNCHANGED watchVars

(***************************************************************************)
(* SpecTopics: Start on a drawn list of channels.  The short lists have    *)
(* any ids and flags; the long ones have every flag set but for the last   *)
(* channel.                                                                *)
(***************************************************************************)
MaxChannels == 24
UserIDs == {"", "u1"}
AllFlags == SUBSET ChannelFlags

\* a login listed twice is loaded twice, with the same settings
ShortChannelLists ==
    {list \in UNION {[1..n -> {Channel(id, flags) : id \in {"", "1", "2"},
                                                    flags \in AllFlags}] : n \in 0..2} :
        \A i, j \in 1..Len(list) :
            list[i].ChannelID = list[j].ChannelID /\ list[i].ChannelID # ""
            => list[i] = list[j]}

LongChannelLists ==
    {[i \in 1..n |-> Channel(ToString(i), IF i = n THEN flags ELSE ChannelFlags)]
        : n \in 9..MaxChannels, flags \in AllFlags}

InitTopics ==
    /\ streamers \in ShortChannelLists \cup LongChannelLists
    /\ NoPredictionState
    /\ NoWatchState

NextTopics == \E userID \in UserIDs : Start(userID)

SpecTopics == InitTopics /\ [][NextTopics]_vars

\* the concatenation of the first n batches
RECURSIVE Concatenation(_, _)
Concatenation(batches, n) ==
    IF n = 0 THEN <<>> ELSE Concatenation(batches, n - 1) \o batches[n]

\* ceil(n/50) batches, each of 1 to 50 topics, that concatenate to the list
WellChunked(list, batches) ==
    /\ Len(batches) = (Len(list) + ChunkSize - 1) \div ChunkSize
    /\ \A b \in 1..Len(batches) : Len(batches[b]) \in 1..ChunkSize
    /\ Concatenation(batches, Len(batches)) = list
    /\ \A t \in 1..Len(list) :
          Cardinality({b \in 1..Len(batches) :
                          \E j \in 1..Len(batches[b]) : batches[b][j] = list[t]}) = 1

\* C16: chunkTopics(topics, 50) yields ceil(n/50) non-empty batches of at most
\* 50 topics each whose concatenation is the input, so that every topic is in
\* exactly one batch, and Start launches exactly one connection loop per batch.
C16_TopicBatching ==
    /\ \A n \in 0..Len(topics) :
          WellChunked(SubSeq(topics, 1, n), chunkTopics(SubSeq(topics, 1, n), ChunkSize))
    /\ conns # <<>> =>
          /\ [i \in 1..Len(conns) |-> conns[i].topics] = chunkTopics(topics, ChunkSize)
          /\ \A i \in 1..Len(conns) : conns[i].idx = i /\ conns[i].pc = "top"

\* 120 topics: three loops, of 50, 50 and 20 topics
C16_Witness ==
    /\ Len(topics) = 120
    /\ Len(conns) = 3
    /\ Len(conns[1].topics) = 50
    /\ Len(conns[2].topics) = 50
    /\ Len(conns[3].topics) = 20

\* the list holds the topic
HasTopic(list, prefix, id) == \E t \in 1..Len(list) : list[t] = Topic(prefix, id)

\* C17: the list of buildTopics has no duplicate; it always holds the points
\* topic of the user; it holds the wager-result topic of the user iff some
\* tracked channel has wagering enabled; it holds the presence topic of every
\* channel that has a channel id, and the raid, channel-wager, moment and
\* community-goal topic of such a channel iff the corresponding flag of the
\* channel is set.
C17_BuildTopics ==
    topics # <<>> =>
        /\ \A i, j \in 1..Len(topics) : i # j => topics[i] # topics[j]
        /\ \E userID \in UserIDs \ {""} :
              /\ HasTopic(topics, "community-points-user-v1", userID)
              /\ HasTopic(topics, "predictions-user-v1", userID)
                 <=> \E i \in 1..Len(streamers) : streamers[i].Settings.MakePredictions
        /\ \A i \in 1..Len(streamers) :
              LET s == streamers[i]
              IN  s.ChannelID # "" =>
                    /\ HasTopic(topics, "video-playback-by-id", s.ChannelID)
                    /\ HasTopic(topics, "raid", s.ChannelID) <=> s.Settings.FollowRaid
                    /\ HasTopic(topics, "predictions-channel-v1", s.ChannelID)
                       <=> s.Settings.MakePredictions
                    /\ HasTopic(topics, "community-moments-channel-v1", s.ChannelID)
                       <=> s.Settings.ClaimMoments
                    /\ HasTopic(topics, "community-points-channel-v1", s.ChannelID)
                       <=> s.Settings.CommunityGoals

\* the topics of a channel listed twice that follows raids and of nothing
\* else: the points topic of the user, the presence topic and the raid topic
C17_Witness ==
    /\ Len(streamers) = 2
    /\ streamers[1] = streamers[2]
    /\ streamers[1].ChannelID = "1"
    /\ streamers[1].Settings.FollowRaid
    /\ ~streamers[1].Settings.MakePredictions
    /\ Len(topics) = 3
    /\ HasTopic(topics, "raid", "1")

(***************************************************************************)
(* The connection loops.  A loop is at "top" (the head of the for of run), *)
(* "dial", "subscribe" (listenTopics), "listening" (the select of          *)
(* connectAndListen), "backoff" (the Sleep of run) or "done" (returned).   *)
(* reader is the state of the read goroutine of the connection: "none",    *)
(* "reading", or "failed" once it has put its error in readErr.            *)
(***************************************************************************)
BackoffSeconds == 10        \* time.Sleep(10 * time.Second)
KeepaliveSeconds == 300     \* 5 * time.Minute
\* the values that randomInt(min, max) returns: min + rand.Int(max - min + 1)
randomInt(min, max) == IF max <= min THEN {min} ELSE min..max

\* randomPingInterval(), in seconds
PingIntervals == randomInt(25, 30)

\* needsAuth without the prefixes
needsAuthNever(topic) == FALSE

\* needsAuth of listenTopics
needsAuth(topic) ==
    topic.prefix = "community-points-user-v1" \/ topic.prefix = "predictions-user-v1"

\* the payload of the LISTEN of a topic: auth says whether data has auth_token
ListenFrame(topic) ==
    [type |-> "LISTEN", topics |-> <<topic>>, auth |-> needsAuth(topic)]

\* a failure after which run does not sleep
FailedNoSleep(l, cause) ==
    [l EXCEPT !.open = FALSE, !.reader = "none", !.pc = "backoff",
              !.pingAt = ZeroTime, !.wakeAt = now, !.cause = cause]

\* connectAndListen returns the error: the deferred Close, then the Sleep of run
Failed(l, cause) ==
    [l EXCEPT !.open = FALSE, !.reader = "none", !.pc = "backoff",
              !.pingAt = ZeroTime, !.wakeAt = now + BackoffSeconds, !.cause = cause]

MaxDialAt == 25         \* no connection is dialled after this time
MaxPongAt == 31         \* the server sends no PONG after this time

\* the loop i becomes l and nothing else changes
LoopStep(i, l) ==
    /\ conns' = [conns EXCEPT ![i] = l]
    /\ UNCHANGED <<topics, stop, returned>>
    /\ UNCHANGED predictionVars
    /\ UNCHANGED watchVars

\* run: the select on stop at the head of the loop
RunTop(i) ==
    /\ conns[i].pc = "top"
    /\ LoopStep(i, [conns[i] EXCEPT !.pc = IF stop THEN "done" ELSE "dial"])

\* connectAndListen: dialer.Dial
Dial(i, ok) ==
    /\ conns[i].pc = "dial"
    /\ now <= MaxDialAt
    /\ LoopStep(i, IF ok THEN [conns[i] EXCEPT !.open = TRUE, !.sent = <<>>,
                                               !.pc = "subscribe", !.cause = ""]
                   ELSE Failed(conns[i], "dial"))

\* listenTopics that gives up at the failed write and reports no error
SubscribeIgnoringError(i, failAt, interval) ==
    /\ conns[i].pc = "subscribe"
    /\ LoopStep(i,
         [conns[i] EXCEPT
             !.sent = [t \in 1..(IF failAt <= Len(conns[i].topics)
                                 THEN failAt - 1 ELSE Len(conns[i].topics)) |->
                          ListenFrame(conns[i].topics[t])],
             !.lastPong = now, !.pingAt = now + interval,
             !.reader = "reading", !.pc = "listening"])

\* connectAndListen: listenTopics, whose write number failAt fails (none when
\* failAt is beyond the batch), then lastPong, the ping timer and the reader
Subscribe(i, failAt, interval) ==
    /\ conns[i].pc = "subscribe"
    /\ LoopStep(i,
         IF failAt <= Len(conns[i].topics)
         THEN Failed([conns[i] EXCEPT
                         !.sent = [t \in 1..(failAt - 1) |-> ListenFrame(conns[i].topics[t])]],
                     "listen")
         ELSE [conns[i] EXCEPT
                  !.sent = [t \in 1..Len(conns[i].topics) |-> ListenFrame(conns[i].topics[t])],
                  !.lastPong = now, !.pingAt = now + interval,
                  !.reader = "reading", !.pc = "listening"])

\* the reader: handleMessage of a PONG, onPong
Pong(i) ==
    /\ conns[i].pc = "listening"
    /\ conns[i].reader = "reading"
    /\ now <= MaxPongAt
    /\ LoopStep(i, [conns[i] EXCEPT !.lastPong = now])

\* the reader: ReadMessage fails, readErr <- err, return
ReadError(i) ==
    /\ conns[i].pc = "listening"
    /\ conns[i].reader = "reading"
    /\ LoopStep(i, [conns[i] EXCEPT !.reader = "failed"])

\* the select of connectAndListen: case err := <-readErr
SelectReadErr(i) ==
    /\ conns[i].pc = "listening"
    /\ conns[i].reader = "failed"
    /\ LoopStep(i, Failed(conns[i], "read"))

\* the keepalive test that fails at 5 minutes already
KeepaliveExpiredAt(l) == now - l.lastPong >= KeepaliveSeconds

\* time.Since(lastPong) > 5*time.Minute
KeepaliveExpired(l) == now - l.lastPong > KeepaliveSeconds

\* the select of connectAndListen: case <-pingTimer.C
PingTimer(i, ok, interval) ==
    /\ conns[i].pc = "listening"
    /\ now >= conns[i].pingAt
    /\ LoopStep(i, IF ~ok THEN Failed(conns[i], "ping")
                   ELSE IF KeepaliveExpired(conns[i])
                        THEN Failed(conns[i], "pong")
                        ELSE [conns[i] EXCEPT !.pingAt = now + interval])

\* the select of connectAndListen: case <-stop, return nil
SelectStop(i) ==
    /\ conns[i].pc = "listening"
    /\ stop
    /\ LoopStep(i, [conns[i] EXCEPT !.open = FALSE, !.reader = "none", !.pc = "top",
                                    !.sent = <<>>, !.lastPong = ZeroTime,
                                    !.pingAt = ZeroTime])

\* run: the Sleep is over
Wake(i) ==
    /\ conns[i].pc = "backoff"
    /\ now >= conns[i].wakeAt
    /\ LoopStep(i, [conns[i] EXCEPT !.pc = "top", !.sent = <<>>, !.wakeAt = ZeroTime,
                                    !.lastPong = ZeroTime, !.cause = ""])

\* close(stop)
SignalStop ==
    /\ ~stop
    /\ stop' = TRUE
    /\ UNCHANGED <<topics, conns, returned>>
    /\ UNCHANGED predictionVars
    /\ UNCHANGED watchVars

\* the times at which a timer of a loop fires
Deadlines ==
    {conns[i].pingAt : i \in {j \in 1..Len(conns) : conns[j].pc = "listening"}}
    \cup {conns[i].wakeAt : i \in {j \in 1..Len(conns) : conns[j].pc = "backoff"}}

MaxConnNow == 335       \* the clock of one loop stops here
MaxConnsNow == 27       \* the clock of several loops stops here

\* the time of the next timer to fire
NextDeadline == CHOOSE t \in Deadlines : \A d \in Deadlines : t <= d

\* time passes until the next timer fires
Pass ==
    /\ Deadlines # {}
    /\ NextDeadline > now
    /\ NextDeadline <= IF Len(conns) > 1 THEN MaxConnsNow ELSE MaxConnNow
    /\ now' = NextDeadline
    /\ UNCHANGED <<watchPriorities, streamers, watchList, wentOnline>>
    /\ UNCHANGED predictionVars
    /\ UNCHANGED connVars

\* the writes of listenTopics that are made to fail: the first, the last, none
FailPoints(n) == {1, n, n + 1}

(***************************************************************************)
(* SpecConn: Start and the loops of one batch or of two.                   *)
(***************************************************************************)
InitConn ==
    /\ streamers \in {<<Channel("1", {"MakePredictions"})>>,
                      [i \in 1..10 |-> Channel(ToString(i), ChannelFlags)]}
    /\ NoPredictionState
    /\ NoWatchState

NextConn ==
    \/ Start("u1")
    \/ SignalStop
    \/ Pass
    \/ \E i \in 1..Len(conns) :
          \/ RunTop(i)
          \/ \E ok \in BOOLEAN : Dial(i, ok)
          \/ \E failAt \in FailPoints(Len(conns[i].topics)), interval \in PingIntervals :
                Subscribe(i, failAt, interval)
          \/ Pong(i)
          \/ ReadError(i)
          \/ SelectReadErr(i)
          \/ \E ok \in BOOLEAN, interval \in PingIntervals : PingTimer(i, ok, interval)
          \/ SelectStop(i)
          \/ Wake(i)

SpecConn == InitConn /\ [][NextConn]_vars

PrivatePrefixes == {"community-points-user-v1", "predictions-user-v1"}

\* C18: every LISTEN that was sent names exactly one topic and carries the
\* token iff that topic is one of the two private topics of the user; no
\* LISTEN of a channel topic carries it.
C18_ListenAuth ==
    \A i \in 1..Len(conns) :
        \A f \in 1..Len(conns[i].sent) :
            LET frame == conns[i].sent[f]
            IN  /\ frame.type = "LISTEN"
                /\ Len(frame.topics) = 1
                /\ frame.topics[1] = conns[i].topics[f]
                /\ frame.auth <=> frame.topics[1].prefix \in PrivatePrefixes

\* a connection on which the four topics of a batch were subscribed: the two
\* of the user with the token, the two of the channel without
C18_Witness ==
    \E i \in 1..Len(conns) :
        /\ conns[i].pc = "listening"
        /\ Len(conns[i].sent) = 4
        /\ conns[i].sent[1].auth /\ conns[i].sent[2].auth
        /\ ~conns[i].sent[3].auth /\ ~conns[i].sent[4].auth
        /\ conns[i].sent[4].topics[1].prefix = "predictions-channel-v1"

FailureCauses == {"dial", "listen", "read", "ping", "pong"}

\* what a step may do to the loop i, as far as failures and retries go
RetryStep(i) ==
    LET l == conns[i]
        m == conns'[i]
    IN  \* a failure closes the connection and starts a wait of 10 seconds
        /\ (l.pc # "backoff" /\ m.pc = "backoff") =>
              /\ l.pc \in {"dial", "subscribe", "listening"}
              /\ ~m.open
              /\ m.cause \in FailureCauses
              /\ m.wakeAt = now + 10
        \* a connection is left by a failure only, or by the stop signal
        /\ (l.pc \in {"dial", "subscribe", "listening"} /\ m.pc = "top") =>
              l.pc = "listening" /\ stop
        \* the wait is left when it is over, and then for the head of the loop
        /\ l.pc = "backoff" =>
              /\ m.pc \in {"backoff", "top"}
              /\ m.wakeAt = IF m.pc = "backoff" THEN l.wakeAt ELSE ZeroTime
              /\ m.pc = "top" => now = l.wakeAt /\ now' = now
        \* the head of the loop dials again whatever happened before, unless
        \* the stop signal is there
        /\ (l.pc = "top" /\ m.pc # "top") => m.pc = IF stop THEN "done" ELSE "dial"
        /\ (l.pc # "done" /\ m.pc = "done") => l.pc = "top" /\ stop
        /\ l.pc = "done" => m = l

\* C19: after any failure of a connection (dial, subscribe write, read, PING
\* write, keepalive) the loop closes the connection, waits 10 seconds, whatever
\* the number of failures before, and connects again; it gives up only at the
\* head of the loop, once the stop signal is there.
C19_RetryAfterFixedBackoff ==
    [][conns # <<>> => \A i \in 1..Len(conns) : RetryStep(i)]_vars

\* a second failure in a row, at the subscription of the retry made at 11:
\* the wait is again of 10 seconds
C19_Witness ==
    \E i \in 1..Len(conns) :
        /\ conns[i].pc = "backoff"
        /\ conns[i].cause = "listen"
        /\ now = 11
        /\ conns[i].wakeAt = 21

\* what a step may do to the loop i, as far as the keepalive goes
KeepaliveStep(i) ==
    LET l == conns[i]
        m == conns'[i]
    IN  \* the clock starts when the connection is established
        /\ (l.pc = "subscribe" /\ m.pc = "listening") => m.lastPong = now
        \* the connection is recycled for its silence only after more than 5
        \* minutes of it
        /\ (l.pc = "listening" /\ m.pc = "backoff" /\ m.cause = "pong") =>
              now - l.lastPong > 300
        \* and it does not outlive a PING sent after more than 5 minutes of it
        /\ (l.pc = "listening" /\ m.pc = "listening" /\ m.pingAt # l.pingAt) =>
              now - l.lastPong <= 300
        \* a PONG restarts the clock of its connection and of no other
        /\ (l.pc = "listening" /\ m.pc = "listening" /\ m.lastPong # l.lastPong) =>
              /\ m.lastPong = now
              /\ \A j \in 1..Len(conns) : j # i => conns'[j] = conns[j]

\* C20: a connection is recycled when more than 5 minutes have passed without
\* a PONG on it, counted from its establishment when it received none: not
\* after 4m59s or 5m, and not later than the PING that follows the 5 minutes;
\* a PONG restarts the clock of its connection only.
C20_Keepalive ==
    [][conns # <<>> => \A i \in 1..Len(conns) : KeepaliveStep(i)]_vars

\* C20, as a state predicate: an established connection is never silent for
\* more than 5 minutes and one PING interval
KeepaliveLateness ==
    \A i \in 1..Len(conns) :
        conns[i].pc = "listening" => now - conns[i].lastPong <= 300 + 30

\* a connection recycled at the PING sent 5m1s after its establishment
C20_Witness ==
    \E i \in 1..Len(conns) :
        /\ conns[i].pc = "backoff"
        /\ conns[i].cause = "pong"
        /\ conns[i].lastPong = 1
        /\ now = 302

\* a connection that goes on after the PING sent 4m59s after its last PONG
C20_WitnessNoRecycle ==
    \E i \in 1..Len(conns) :
        /\ conns[i].pc = "listening"
        /\ conns[i].lastPong = 26
        /\ now - conns[i].lastPong = 299
        /\ conns[i].pingAt - now >= 25

\* C21: every interval between two PINGs of a connection is at least 25
\* seconds and strictly less than 30 seconds.
C21_PingIntervalHalfOpen ==
    [][\A i \in 1..Len(conns) :
          (i <= Len(conns') /\ conns'[i].pc = "listening"
             /\ conns'[i].pingAt # conns[i].pingAt)
          => /\ conns'[i].pingAt - now >= 25
             /\ conns'[i].pingAt - now < 30]_vars

(***************************************************************************)
(* Properties of the registry, continued.                                  *)
(***************************************************************************)
ClosedStatuses == {"RESOLVED", "CANCELED", "CANCELLED"}

\* C22: an event of the registry leaves it when it resolves: no event stays
\* registered once the channel reported it RESOLVED, CANCELED or CANCELLED,
\* whether a wager was placed on it or not.
C22_RemovedOnResolution ==
    \A id \in EventIDs :
        predictions[id] # 0 => events[predictions[id]].Status \notin ClosedStatuses

(***************************************************************************)
(* SpecPlace: placePrediction step by step, beside the two handlers.  The  *)
(* task "place" is the callback of the placement timer: "decide" after its *)
(* lookup under predMu, "submit" before MakePrediction, "record" before    *)
(* recordHistory.                                                          *)
(***************************************************************************)
PlaceTask == [amount |-> 0] @@ IdleTask

\* placePrediction: the timer k fires, the lookup under predMu
PlaceLookup(k) ==
    /\ tasks["place"].pc = "idle"
    /\ k \in 1..Len(timers) /\ ~timers[k].Fired
    /\ timers' = [timers EXCEPT ![k].Fired = TRUE]
    /\ tasks' = [tasks EXCEPT !["place"] =
                    [@ EXCEPT !.pc = IF predictions[timers[k].EventID] = 0
                                     THEN "done" ELSE "decide",
                              !.id = timers[k].EventID,
                              !.ev = predictions[timers[k].EventID]]]
    /\ UNCHANGED <<streamers, predictions, events, wagers, skipped, resultLog>>
    /\ UNCHANGED <<now, watchPriorities, watchList, wentOnline>>
    /\ UNCHANGED connVars

\* the attempt is skipped for the reason, with the stake amount
PlaceSkipped(e, reason, amount) ==
    /\ skipped' = <<SkipLine(events[e], reason, amount)>>
    /\ tasks' = [tasks EXCEPT !["place"].pc = "done"]

\* placePrediction from the decision on to the call of MakePrediction: d is
\* what Decide made of the object at position e
PlaceDecided(e, d) ==
    /\ events' = [events EXCEPT ![e] = d[1]]
    /\ IF d[2].OutcomeID = "" THEN PlaceSkipped(e, "no outcome selected", 0)
       ELSE IF BelowTwitchMinimum(d[2].Amount)
       THEN PlaceSkipped(e, StakeSkipReason(streamers[1].ChannelPoints,
                                            streamers[1].Settings.Bet.MaxPoints),
                         d[2].Amount)
       ELSE /\ tasks' = [tasks EXCEPT !["place"].pc = "submit",
                                      !["place"].amount = d[2].Amount]
            /\ UNCHANGED skipped

\* placePrediction: the tests of the status and of the balance, then Decide
PlaceDecide ==
    /\ tasks["place"].pc = "decide"
    /\ IF events[tasks["place"].ev].Status # "ACTIVE"
       THEN PlaceSkipped(tasks["place"].ev, "event status", 0) /\ UNCHANGED events
       ELSE IF BalanceAtOrBelowMinimum(streamers[1])
       THEN PlaceSkipped(tasks["place"].ev, "minimum_points", 0) /\ UNCHANGED events
       ELSE PlaceDecided(tasks["place"].ev,
                         Decide(events[tasks["place"].ev], streamers[1].ChannelPoints))
    /\ UNCHANGED <<streamers, predictions, timers, wagers, resultLog>>
    /\ UNCHANGED <<now, watchPriorities, watchList, wentOnline>>
    /\ UNCHANGED connVars

\* placePrediction: MakePrediction(event), then the two flags
PlaceSubmit(ok) ==
    /\ tasks["place"].pc = "submit"
    /\ wagers' = MakePrediction(events[tasks["place"].ev], ok)
    /\ events' = IF ok THEN [events EXCEPT ![tasks["place"].ev].BetPlaced = TRUE,
                                           ![tasks["place"].ev].BetConfirmed = TRUE]
                 ELSE events
    /\ tasks' = [tasks EXCEPT !["place"].pc = IF ok THEN "record" ELSE "done"]
    /\ UNCHANGED <<streamers, predictions, timers, skipped, resultLog>>
    /\ UNCHANGED <<now, watchPriorities, watchList, wentOnline>>
    /\ UNCHANGED connVars

\* placePrediction: recordHistory(streamer, "PREDICTION", -decision.Amount)
PlaceRecord ==
    /\ tasks["place"].pc = "record"
    /\ streamers' = [streamers EXCEPT ![1].History =
                        recordHistory(@, "PREDICTION", -tasks["place"].amount)]
    /\ tasks' = [tasks EXCEPT !["place"].pc = "done"]
    /\ UNCHANGED <<predictions, events, timers, wagers, skipped, resultLog>>
    /\ UNCHANGED <<now, watchPriorities, watchList, wentOnline>>
    /\ UNCHANGED connVars

InitPlace ==
    /\ streamers = <<NewStreamer(1000, 0, 0, TRUE, DefaultBet)>>
    /\ \E k \in {1, 2} :
          events = <<NewPredictionEvent(1, "e1", "ACTIVE", MessageOutcomes[k])>>
    /\ predictions = [NoPredictions EXCEPT !["e1"] = 1]
    /\ timers = <<[EventID |-> "e1", Fired |-> FALSE]>>
    /\ wagers = <<>>
    /\ skipped = <<>>
    /\ resultLog = <<>>
    /\ tasks = [h \in Handlers \cup {"place"} |->
                   IF h = "place" THEN PlaceTask ELSE IdleTask]
    /\ NoConnState
    /\ NoWatchState

NextPlace ==
    \/ PlaceLookup(1)
    \/ PlaceDecide
    \/ \E ok \in BOOLEAN : PlaceSubmit(ok)
    \/ PlaceRecord
    \/ \E id \in EventIDs, resultType \in ResultTypes, pointsWon \in {0, 200} :
          UserLookup(id, resultType, pointsWon)
    \/ \E id \in EventIDs, status \in Statuses, k \in 1..Len(MessageRaw),
          winningID \in {"", "o1", "o2"} : ChannelUpdate(id, status, k, winningID)
    \/ ChannelCheck
    \/ \E h \in Handlers : HandlerParseResult(h)
    \/ \E h \in Handlers : HandlerRecordHistory(h)
    \/ \E h \in Handlers : HandlerDelete(h)

SpecPlace == InitPlace /\ [][NextPlace]_vars

\* a placement attempt is between its lookup and its end
PlaceInFlight == tasks["place"].pc \in {"decide", "submit", "record"}

\* C23: no event leaves the registry while a placement attempt on it is in
\* flight, that is between the lookup of placePrediction and the end of the
\* attempt.
C23_NoRemovalDuringPlacement ==
    PlaceInFlight => predictions[tasks["place"].id] = tasks["place"].ev

(***************************************************************************)
(* SpecLedger: recordHistory and updateHistory statement by statement, for *)
(* two tasks that record into the ledger of the same channel.  Here the    *)
(* ledger streamer.History is the record of whether the map is nil, of the *)
(* entry that the map holds for each reason (0 for none) and of the        *)
(* HistoryEntry objects that were allocated.                               *)
(***************************************************************************)
LedgerTasks == {"handler", "place"}

NilLedger == [nil |-> TRUE, map |-> [r \in HistoryReasons |-> 0], entries |-> <<>>]

\* the ledger after one recording of amount for the reason
LedgerWith(reason, amount) ==
    [nil |-> FALSE, map |-> [r \in HistoryReasons |-> IF r = reason THEN 1 ELSE 0],
     entries |-> <<[Count |-> 1, Amount |-> amount]>>]

\* the entry of the ledger for the reason, as a reader of the ledger finds it
LedgerEntry(history, reason) ==
    IF history.nil \/ history.map[reason] = 0 THEN [Count |-> 0, Amount |-> 0]
    ELSE history.entries[history.map[reason]]

\* a call of recordHistory(streamer, reason, amount) that is about to start;
\* count0 and amount0 are the entry of the reason at that time
LedgerCall(history, reason, amount) ==
    [pc |-> "check", reason |-> reason, amount |-> amount, entry |-> 0, read |-> 0,
     count0 |-> LedgerEntry(history, reason).Count,
     amount0 |-> LedgerEntry(history, reason).Amount]

\* the task t and the ledger after a statement
LedgerStep(t, task, history) ==
    /\ tasks' = [tasks EXCEPT ![t] = task]
    /\ streamers' = [streamers EXCEPT ![1].History = history]
    /\ UNCHANGED <<predictions, events, timers, wagers, skipped, resultLog>>
    /\ UNCHANGED <<now, watchPriorities, watchList, wentOnline>>
    /\ UNCHANGED connVars

\* if streamer.History == nil
HistoryCheck(t) ==
    /\ tasks[t].pc = "check"
    /\ LedgerStep(t, [tasks[t] EXCEPT !.pc = IF streamers[1].History.nil
                                              THEN "make" ELSE "lookup"],
                  streamers[1].History)

\* streamer.History = make(map[string]*HistoryEntry)
HistoryMake(t) ==
    /\ tasks[t].pc = "make"
    /\ LedgerStep(t, [tasks[t] EXCEPT !.pc = "lookup"],
                  [streamers[1].History EXCEPT !.nil = FALSE,
                                               !.map = [r \in HistoryReasons |-> 0]])

\* entry, ok := streamer.History[reason]
HistoryLookup(t) ==
    /\ tasks[t].pc = "lookup"
    /\ LedgerStep(t, [tasks[t] EXCEPT
                         !.entry = streamers[1].History.map[tasks[t].reason],
                         !.pc = IF streamers[1].History.map[tasks[t].reason] = 0
                                THEN "create" ELSE "readCount"],
                  streamers[1].History)

\* entry = &HistoryEntry{}; streamer.History[reason] = entry
HistoryCreate(t) ==
    /\ tasks[t].pc = "create"
    /\ LedgerStep(t, [tasks[t] EXCEPT !.entry = Len(streamers[1].History.entries) + 1,
                                      !.pc = "readCount"],
                  [streamers[1].History EXCEPT
                      !.entries = Append(@, [Count |-> 0, Amount |-> 0]),
                      !.map[tasks[t].reason] = Len(streamers[1].History.entries) + 1])

\* entry.Count++, the read
HistoryReadCount(t) ==
    /\ tasks[t].pc = "readCount"
    /\ LedgerStep(t, [tasks[t] EXCEPT
                         !.read = streamers[1].History.entries[tasks[t].entry].Count,
                         !.pc = "writeCount"],
                  streamers[1].History)

\* entry.Count++, the write
HistoryWriteCount(t) ==
    /\ tasks[t].pc = "writeCount"
    /\ LedgerStep(t, [tasks[t] EXCEPT !.pc = "readAmount"],
                  [streamers[1].History EXCEPT
                      !.entries[tasks[t].entry].Count = tasks[t].read + 1])

\* entry.Amount += amount, the read
HistoryReadAmount(t) ==
    /\ tasks[t].pc = "readAmount"
    /\ LedgerStep(t, [tasks[t] EXCEPT
                         !.read = streamers[1].History.entries[tasks[t].entry].Amount,
                         !.pc = "writeAmount"],
                  streamers[1].History)

\* entry.Amount += amount, the write
HistoryWriteAmount(t) ==
    /\ tasks[t].pc = "writeAmount"
    /\ LedgerStep(t, [tasks[t] EXCEPT !.pc = "done"],
                  [streamers[1].History EXCEPT
                      !.entries[tasks[t].entry].Amount = tasks[t].read + tasks[t].amount])

\* what the read task of a connection records: a gain of points
\* (handlePubSubGain, updateHistory) or the result of a wager
\* (logPredictionResult, recordHistory)
HandlerCalls == {<<"WATCH", 10>>, <<"WATCH", 50>>, <<"PREDICTION", 100>>,
                 <<"PREDICTION", -50>>, <<"REFUND", -50>>}

\* the ledgers at the start: nil, or with one recording
StartLedgers == {NilLedger, LedgerWith("WATCH", 10), LedgerWith("PREDICTION", -50)}

\* the read task of a connection and the placement timer (stake 50) are both
\* about to record into the ledger of the channel
InitLedger ==
    /\ \E history \in StartLedgers, call \in HandlerCalls :
          /\ streamers = <<[NewStreamer(1000, 0, 0, TRUE, DefaultBet)
                               EXCEPT !.History = history]>>
          /\ tasks = [t \in LedgerTasks |->
                         IF t = "place" THEN LedgerCall(history, "PREDICTION", -50)
                         ELSE LedgerCall(history, call[1], call[2])]
    /\ predictions = NoPredictions
    /\ events = <<>>
    /\ timers = <<>>
    /\ wagers = <<>>
    /\ skipped = <<>>
    /\ resultLog = <<>>
    /\ NoConnState
    /\ NoWatchState

NextLedger ==
    \E t \in LedgerTasks :
        \/ HistoryCheck(t)
        \/ HistoryMake(t)
        \/ HistoryLookup(t)
        \/ HistoryCreate(t)
        \/ HistoryReadCount(t)
        \/ HistoryWriteCount(t)
        \/ HistoryReadAmount(t)
        \/ HistoryWriteAmount(t)

SpecLedger == InitLedger /\ [][NextLedger]_vars

\* the sum of the amounts that the tasks record for the reason
RecordedAmount(reason) ==
    (IF tasks["handler"].reason = reason THEN tasks["handler"].amount ELSE 0)
    + (IF tasks["place"].reason = reason THEN tasks["place"].amount ELSE 0)

\* C24: once both tasks have recorded, the entry of each of their reasons
\* counts both recordings: its count and its amount are those of the start
\* plus what the tasks recorded for the reason (no lost update).
C24_NoLostUpdate ==
    (\A t \in LedgerTasks : tasks[t].pc = "done") =>
        \A t \in LedgerTasks :
            LET entry == LedgerEntry(streamers[1].History, tasks[t].reason)
            IN  /\ entry.Count = tasks[t].count0
                                 + Cardinality({u \in LedgerTasks :
                                                   tasks[u].reason = tasks[t].reason})
                /\ entry.Amount = tasks[t].amount0 + RecordedAmount(tasks[t].reason)

\* the wait in which the loop i stands can end now: the select of
\* connectAndListen has a ready case, the Sleep of run is over
WaitCanEnd(i) ==
    \/ conns[i].pc = "listening"
          /\ (stop \/ now >= conns[i].pingAt \/ conns[i].reader = "failed")
    \/ conns[i].pc = "backoff" /\ now >= conns[i].wakeAt

\* C25: the stop signal is observed at every wait of a connection loop: once
\* stop is signalled, the keepalive wait and the reconnect backoff of every
\* loop can end at once, before their timers fire.
C25_StopEndsEveryWait ==
    stop => \A i \in 1..Len(conns) :
                conns[i].pc \in {"listening", "backoff"} => WaitCanEnd(i)

(***************************************************************************)
(* SpecInbound: the read task of one connection and what ReadMessage hands *)
(* it.  An inbound frame is the record of what the parsers find in it:     *)
(*   json     the frame is a JSON object (json.Unmarshal succeeds)          *)
(*   type     envelope["type"]                                             *)
(*   data     envelope["data"] is an object                                *)
(*   topic    the prefix of data["topic"], topicID the id after it         *)
(*   message  data["message"]: "" (absent or empty), "invalid" (not JSON), *)
(*            "valid"                                                      *)
(*   ntype    the type of the nested payload, nested whether it has the    *)
(*            data that its handler reads, channelID the channel_id there  *)
(***************************************************************************)
Frame(json, type, data, topic, topicID, message, ntype, nested, channelID) ==
    [json |-> json, type |-> type, data |-> data, topic |-> topic,
     topicID |-> topicID, message |-> message, ntype |-> ntype,
     nested |-> nested, channelID |-> channelID]

\* streamerMap[channelID] of the client: the position of the channel, 0 if
\* the channel is not tracked
streamerMap(channelID) ==
    IF \E k \in 1..Len(streamers) : streamers[k].ChannelID = channelID
    THEN CHOOSE k \in 1..Len(streamers) : streamers[k].ChannelID = channelID
    ELSE 0

\* handleTopicMessage: the handler that the MESSAGE goes to, "drop" when it
\* returns nil at once, "error" when it returns the error of the parser
handleTopicMessage(f) ==
    IF ~f.data \/ f.message = "" THEN "drop"
    ELSE IF f.message = "invalid" THEN "error"
    ELSE IF f.ntype = "points-earned" THEN "points-earned"
    ELSE IF f.topic = "video-playback-by-id" THEN "playback"
    ELSE IF f.topic = "predictions-channel-v1" THEN "prediction-channel"
    ELSE "drop"

\* handleMessage: where the frame goes
handleMessage(f) ==
    IF ~f.json THEN "error"
    ELSE CASE f.type = "PONG" -> "pong"
           [] f.type \in {"RESPONSE", "RECONNECT"} -> "drop"
           [] f.type = "MESSAGE" -> handleTopicMessage(f)
           [] OTHER -> "drop"

\* processPointsEarned up to onGain: the channel that gains, 0 when the
\* handler returns before
GainChannel(f) == IF ~f.nested THEN 0 ELSE streamerMap(f.channelID)

\* processPlaybackMessage up to onPresence: the channel whose presence
\* changes, 0 when the handler returns before
PresenceChannel(f) ==
    IF f.topicID = "" \/ f.ntype \notin {"stream-up", "viewcount", "stream-down"}
    THEN 0 ELSE streamerMap(f.topicID)

\* processPredictionChannel, event-created, up to the registration: the
\* channel of the event (its status is ACTIVE, its id e1), 0 when the handler
\* returns before
CreatedChannel(f) ==
    IF streamerMap(f.topicID) = 0 THEN 0
    ELSE IF ~streamers[streamerMap(f.topicID)].Settings.MakePredictions THEN 0
    ELSE IF ~f.nested \/ f.ntype # "event-created" THEN 0
    ELSE IF BalanceAtOrBelowMinimum(streamers[streamerMap(f.topicID)]) THEN 0
    ELSE streamerMap(f.topicID)

\* handlePubSubGain of a gain of 10 that leaves the balance at 1010
Gained(s) ==
    [s EXCEPT !.ChannelPoints = 1010, !.History = recordHistory(@, "WATCH", 10)]

\* the frames that ReadMessage may return
EnvelopeTypes == {"PONG", "RESPONSE", "RECONNECT", "MESSAGE", "HELLO", ""}
TopicPrefixes == {"community-points-user-v1", "video-playback-by-id",
                  "predictions-channel-v1", "whispers"}
NestedTypes == {"points-earned", "stream-up", "stream-down", "event-created", "bogus"}
FrameIDs == {"1", "9"}

Frames ==
    {Frame(FALSE, "", FALSE, "", "", "", "", FALSE, "")}
    \cup {Frame(TRUE, type, FALSE, "", "", "", "", FALSE, "") : type \in EnvelopeTypes}
    \cup {Frame(TRUE, "MESSAGE", TRUE, "video-playback-by-id", "1", message, "", FALSE, "")
             : message \in {"", "invalid"}}
    \cup {Frame(TRUE, "MESSAGE", TRUE, x[1], x[2], "valid", x[3], x[4], x[2])
             : x \in TopicPrefixes \X FrameIDs \X NestedTypes \X BOOLEAN}

\* the reader: ReadMessage returns the frame f, handleMessage(f, onPong); an
\* error that handleMessage returns is logged and the reader reads on
ReadMessage(i, f) ==
    /\ conns[i].pc = "listening"
    /\ conns[i].reader = "reading"
    /\ returned' = <<[frame |-> f, route |-> handleMessage(f)]>>
    /\ conns' = [conns EXCEPT ![i].lastPong =
                    IF handleMessage(f) = "pong" THEN now ELSE @]
    /\ streamers' =
          CASE handleMessage(f) = "points-earned" /\ GainChannel(f) # 0
                  /\ streamers[1].History["WATCH"].Count < MaxGains ->
                    [streamers EXCEPT ![GainChannel(f)] = Gained(@)]
            [] handleMessage(f) = "playback" /\ PresenceChannel(f) # 0 ->
                    [streamers EXCEPT ![PresenceChannel(f)] =
                        setPresence(@, f.ntype # "stream-down", now)]
            [] OTHER -> streamers
    /\ IF handleMessage(f) = "prediction-channel" /\ CreatedChannel(f) # 0
          /\ Len(timers) < MaxEvents
       THEN /\ Collected(Collect(Append(events,
                            NewPredictionEvent(CreatedChannel(f), "e1", "ACTIVE",
                                               MessageOutcomes[1])),
                            [predictions EXCEPT !["e1"] = Len(events) + 1]))
            /\ timers' = Append(timers, [EventID |-> "e1", Fired |-> FALSE])
       ELSE UNCHANGED <<predictions, events, timers>>
    /\ UNCHANGED <<wagers, skipped, resultLog, tasks, topics, stop>>
    /\ UNCHANGED <<now, watchPriorities, watchList, wentOnline>>

TransportError == Frame(FALSE, "read error", FALSE, "", "", "", "", FALSE, "")

\* the reader: ReadMessage returns an error, readErr <- err, return
ReadMessageFails(i) ==
    /\ conns[i].pc = "listening"
    /\ conns[i].reader = "reading"
    /\ returned' = <<[frame |-> TransportError, route |-> "readErr"]>>
    /\ conns' = [conns EXCEPT ![i].reader = "failed"]
    /\ UNCHANGED <<topics, stop>>
    /\ UNCHANGED predictionVars
    /\ UNCHANGED watchVars

\* time passes
InboundTick ==
    /\ now < TickSeconds
    /\ now' = now + TickSeconds
    /\ UNCHANGED <<watchPriorities, streamers, watchList, wentOnline>>
    /\ UNCHANGED predictionVars
    /\ UNCHANGED connVars

\* one connection that listens for the topics of the tracked channel "1",
\* with predictions on or off
InitInbound ==
    /\ \E flags \in {{}, {"MakePredictions"}} :
          /\ streamers = <<Channel("1", flags)>>
          /\ topics = buildTopics("u1", streamers).topics
          /\ conns = <<[NewLoop(1, topics) EXCEPT !.pc = "listening", !.open = TRUE,
                                                   !.reader = "reading",
                                                   !.lastPong = ZeroTime + 1,
                                                   !.pingAt = ZeroTime + 26]>>
    /\ stop = FALSE
    /\ returned = <<>>
    /\ predictions = NoPredictions
    /\ events = <<>>
    /\ timers = <<>>
    /\ wagers = <<>>
    /\ skipped = <<>>
    /\ resultLog = <<>>
    /\ tasks = <<>>
    /\ NoWatchState

NextInbound ==
    \/ \E f \in Frames : ReadMessage(1, f)
    \/ ReadMessageFails(1)
    \/ InboundTick

SpecInbound == InitInbound /\ [][NextInbound]_vars

\* the frames that the claim lists: not JSON, an envelope of an unknown type,
\* a MESSAGE without data, with an invalid nested payload, with a nested
\* payload of an unknown type, of an unknown topic, or for no tracked channel
Unroutable(f) ==
    \/ ~f.json
    \/ f.type \notin {"PONG", "RESPONSE", "RECONNECT", "MESSAGE"}
    \/ f.type = "MESSAGE" /\ (~f.data \/ f.message \in {"", "invalid"})
    \/ f.type = "MESSAGE" /\ f.ntype = "bogus"
    \/ f.type = "MESSAGE" /\ f.topic \notin {"community-points-user-v1",
                                             "video-playback-by-id",
                                             "predictions-channel-v1"}
    \/ f.type = "MESSAGE" /\ streamerMap(f.topicID) = 0 /\ streamerMap(f.channelID) = 0

\* C26: a frame that cannot be routed changes neither the channels nor the
\* event registry and leaves the read task reading; the read task ends only
\* by a transport read error.
C26_UnroutableDropped ==
    [][/\ (returned' # returned /\ Unroutable(returned'[1].frame)
             /\ returned'[1].frame # TransportError)
          => /\ streamers' = streamers
             /\ predictions' = predictions /\ events' = events /\ timers' = timers
             /\ conns'[1].reader = "reading"
       /\ (conns[1].reader = "reading" /\ conns'[1].reader # "reading")
          => returned'[1].frame = TransportError]_vars

\* what the step does to the registered event of the id: its Decision, once
\* computed, stays, and a refresh of its status or of its outcomes leaves the
\* Decision and the two flags as they were
DecisionKept(old, new) ==
    /\ old.Decision # NoDecision => new.Decision = old.Decision
    /\ (new.Status # old.Status \/ new.Outcomes # old.Outcomes)
          => /\ new.Decision = old.Decision
             /\ new.BetPlaced = old.BetPlaced
             /\ new.BetConfirmed = old.BetConfirmed

\* C27: once a Decision was computed for an event it never changes: no step
\* computes it again, and event-updated refreshes the status and the outcomes
\* of the event but leaves its Decision and its PLACED and CONFIRMED flags.
C27_DecisionImmutable ==
    [][\A id \in EventIDs :
          (predictions[id] # 0 /\ predictions'[id] # 0)
             => DecisionKept(events[predictions[id]], events'[predictions'[id]])]_vars

\* the effects of placePrediction for the object old of the registry, new after
\* the step: submitted is the wager that the platform accepted, <<>> if none
PlacementEffects(old, new, submitted, history, history2) ==
    IF submitted # <<>>
    THEN /\ new.BetPlaced /\ new.BetConfirmed
         /\ history2["PREDICTION"].Count = history["PREDICTION"].Count + 1
         /\ history2["PREDICTION"].Amount =
               history["PREDICTION"].Amount - submitted[1].Amount
         /\ \A r \in HistoryReasons \ {"PREDICTION"} : history2[r] = history[r]
    ELSE /\ new.BetPlaced => old.BetPlaced
         /\ new.BetConfirmed => old.BetConfirmed
         /\ history2 = history

\* C28: when the timer of an event fires, a wager that the platform accepts
\* marks the event PLACED and CONFIRMED and adds one entry of -stake to the
\* ledger of the channel; an attempt that is skipped or whose submission fails
\* marks the event neither PLACED nor CONFIRMED, records nothing and schedules
\* no further attempt.
C28_PlacementEffects ==
    [][\A k \in 1..Len(timers) :
          (~timers[k].Fired /\ Len(timers') >= k /\ timers'[k].Fired
             /\ predictions[timers[k].EventID] # 0)
          => /\ Len(timers') = Len(timers)
             /\ PlacementEffects(events[predictions[timers[k].EventID]],
                                 events'[predictions[timers[k].EventID]],
                                 SubSeq(wagers', Len(wagers) + 1, Len(wagers')),
                                 streamers[1].History, streamers'[1].History)]_vars

\* the first pass of the default order that offers the channel s at time t:
\* 1 streak-protection, 2 drop-progress, 3 input-order
DefaultPassOf(s, t) ==
    IF s.Settings.WatchStreak /\ s.Stream.WatchStreakMissing
       /\ (s.OfflineAt = ZeroTime \/ t - s.OfflineAt > StreakOfflineGrace)
       /\ s.Stream.MinuteWatched < StreakMinutes
    THEN 1
    ELSE IF s.Settings.ClaimDrops /\ s.Stream.CampaignIDs > 0 THEN 2 ELSE 3

\* the channel a is served before the channel b: by an earlier pass, or by the
\* same pass and earlier in the input
ServedBefore(a, b, t) ==
    \/ DefaultPassOf(streamers[a], t) < DefaultPassOf(streamers[b], t)
    \/ DefaultPassOf(streamers[a], t) = DefaultPassOf(streamers[b], t) /\ a < b

\* the list is what the three passes make of the candidates at time t
FilledInPassOrder(list, t) ==
    LET candidates == {i \in 1..Len(streamers) : IsCandidate(streamers[i], t)}
    IN  /\ Range(list) \subseteq candidates
        /\ Len(list) = IF Cardinality(candidates) < maxConcurrentWatchers
                       THEN Cardinality(candidates) ELSE maxConcurrentWatchers
        /\ \A j, k \in 1..Len(list) : j < k => ServedBefore(list[j], list[k], t)
        /\ \A k \in 1..Len(list) : \A c \in candidates \ Range(list) :
               ServedBefore(list[k], c, t)

\* C29: with the default priority order a pick fills its slots with the
\* streak-eligible candidates in input order, then with the candidates that
\* claim drops and have an active campaign, then with the others in input
\* order: no candidate of a later pass is selected while a candidate of an
\* earlier pass is left out.
C29_DefaultPassOrder ==
    [][(MinuteWatcherPick /\ watchPriorities = defaultWatchPriorities)
          => FilledInPassOrder(watchList', now)]_vars

\* C29 witness: three candidates, the first offered only by the input-order
\* pass, the second by the drop pass, the third by the streak pass, and a pick
\* that returned the third, then the second.
C29_Witness ==
    /\ watchPriorities = defaultWatchPriorities
    /\ \A i \in 1..NumStreamers : IsCandidate(streamers[i], now)
    /\ DefaultPassOf(streamers[1], now) = 3
    /\ DefaultPassOf(streamers[2], now) = 2
    /\ DefaultPassOf(streamers[3], now) = 1
    /\ watchList = <<3, 2>>

(***************************************************************************)
(* SpecStreak: one channel over several online sessions.  returned is the  *)
(* history of the streak credit: the time of the last WATCH_STREAK gain.   *)
(***************************************************************************)
StreakTickSeconds == 900    \* the clock advances in steps of a quarter of an hour
MaxStreakNow == 3600        \* the clock stops here

\* Miner.updateHistory(streamer, reason, amount), reason not empty
updateHistory(s, reason, amount) ==
    [s EXCEPT !.History = recordHistory(@, reason, amount),
              !.Stream.WatchStreakMissing = IF reason = "WATCH_STREAK" THEN FALSE ELSE @]

\* handlePubSubGain(streamer, earned, "WATCH_STREAK", balance) for the online
\* channel i
StreakGain(i, earned) ==
    /\ streamers[i].IsOnline
    /\ streamers[i].History["WATCH_STREAK"].Count < MaxGains
    /\ streamers' = [streamers EXCEPT ![i] =
          updateHistory([@ EXCEPT !.ChannelPoints = @ + earned], "WATCH_STREAK", earned)]
    /\ returned' = <<now>>
    /\ UNCHANGED <<topics, conns, stop>>
    /\ UNCHANGED <<now, watchPriorities, watchList, wentOnline>>
    /\ UNCHANGED predictionVars

StreakTick ==
    /\ now < MaxStreakNow
    /\ now' = now + StreakTickSeconds
    /\ UNCHANGED <<watchPriorities, streamers, watchList, wentOnline>>
    /\ UNCHANGED predictionVars
    /\ UNCHANGED connVars

\* a channel that run() found online, with streak credit on or off and 0 or 7
\* minutes watched, whose ledger has no WATCH_STREAK gain yet
InitStreak ==
    /\ now = ZeroTime + 1
    /\ watchPriorities = defaultWatchPriorities
    /\ \E enabled \in BOOLEAN, minutes \in {0, StreakMinutes} :
          streamers = <<updatePresence(
              [NewStreamer(1000, 0, 0, TRUE, DefaultBet) EXCEPT
                  !.Settings.WatchStreak = enabled,
                  !.Stream.MinuteWatched = minutes,
                  !.History = ("WATCH_STREAK" :> [Count |-> 0, Amount |-> 0]) @@ @],
              "online", now)>>
    /\ wentOnline = <<now>>
    /\ watchList = <<>>
    /\ NoPredictionState

NextStreak ==
    \/ StreakTick
    \/ \E online \in BOOLEAN : HandlePubSubPresence(1, online)
    \/ StreakGain(1, 450)
    \/ MinuteWatcherPick

SpecStreak == InitStreak /\ [][NextStreak]_vars

\* the streak of the channel i was credited in its current online session
CreditedThisSession(i) ==
    /\ returned # <<>>
    /\ streamers[i].IsOnline
    /\ returned[1] >= wentOnline[i]

\* C30: an online channel is streak-eligible iff streak credit is enabled, the
\* streak was not credited in the current online session, the last offline
\* transition is more than 30 minutes ago or never happened, and under 7
\* minutes were watched; so a channel that was credited, went offline and came
\* online again is eligible again.
C30_StreakPerSession ==
    streamers[1].IsOnline =>
        (shouldPrioritizeStreak(streamers[1], now)
           <=> /\ streamers[1].Settings.WatchStreak
               /\ ~CreditedThisSession(1)
               /\ (streamers[1].OfflineAt = ZeroTime
                     \/ now - streamers[1].OfflineAt > StreakOfflineGrace)
               /\ streamers[1].Stream.MinuteWatched < StreakMinutes)

\* the candidates of a pick at time t
CandidatesAt(t) == {i \in 1..Len(streamers) : IsCandidate(streamers[i], t)}

\* C31: for every priority list, a pick returns exactly min(2, number of
\* candidates) channels, all of them candidates: the passes of the list are
\* followed by a pass over the candidates in input order.
C31_WorkConserving ==
    [][MinuteWatcherPick =>
          /\ Range(watchList') \subseteq CandidatesAt(now)
          /\ Len(watchList') = IF Cardinality(CandidatesAt(now)) < maxConcurrentWatchers
                               THEN Cardinality(CandidatesAt(now))
                               ELSE maxConcurrentWatchers]_vars

\* C31 witness: the list has the streak pass only, none of the three
\* candidates is streak-eligible, and the pick returned the first two.
C31_Witness ==
    /\ watchPriorities = <<watchPriorityStreak>>
    /\ Cardinality(CandidatesAt(now)) = NumStreamers
    /\ \A i \in 1..NumStreamers : ~shouldPrioritizeStreak(streamers[i], now)
    /\ watchList = <<1, 2>>

(***************************************************************************)
(* SpecMinutes: the heartbeats of one channel over its online sessions.    *)
(* Stream.lastMinuteUpdate is kept beside Stream.MinuteWatched; returned   *)
(* is the history of the seconds that passed while the channel was online. *)
(***************************************************************************)
MinuteSeconds == 60         \* the clock advances in steps of a minute
MaxMinutesNow == 300        \* the clock stops here

\* Stream.UpdateMinuteWatched at time t
UpdateMinuteWatched(stream, t) ==
    [stream EXCEPT
        !.MinuteWatched = IF stream.lastMinuteUpdate # ZeroTime
                          THEN @ + (t - stream.lastMinuteUpdate) \div MinuteSeconds
                          ELSE @,
        !.lastMinuteUpdate = t]

\* Twitch.SendMinuteWatched(streamer) at time t: ready is whether UpdateStream
\* and GetSpadeURL succeed, accepted whether the POST is answered 204
SendMinuteWatched(s, ready, accepted, t) ==
    IF ~ready THEN s
    ELSE IF accepted
    THEN [s EXCEPT !.Stream = UpdateMinuteWatched(UpdateMinuteWatched(@, t), t)]
    ELSE [s EXCEPT !.Stream = UpdateMinuteWatched(@, t)]

\* minuteWatcher: the heartbeat of the next channel of the round; watchList is
\* what is left of the round
Heartbeat(ready, accepted) ==
    /\ watchList # <<>>
    /\ streamers' = [streamers EXCEPT ![Head(watchList)] =
                         SendMinuteWatched(@, ready, accepted, now)]
    /\ watchList' = Tail(watchList)
    /\ UNCHANGED <<now, watchPriorities, wentOnline>>
    /\ UNCHANGED predictionVars
    /\ UNCHANGED connVars

\* minuteWatcher: the pick of the next round, when the round is over
RoundPick ==
    /\ watchList = <<>>
    /\ MinuteWatcherPick

\* a minute passes, between two rounds (the heartbeat of the first channel of
\* a round follows the pick at once)
MinutesTick ==
    /\ now < MaxMinutesNow
    /\ watchList = <<>>
    /\ now' = now + MinuteSeconds
    /\ returned' = <<returned[1] + IF streamers[1].IsOnline THEN MinuteSeconds ELSE 0>>
    /\ UNCHANGED <<watchPriorities, streamers, watchList, wentOnline>>
    /\ UNCHANGED <<topics, conns, stop>>
    /\ UNCHANGED predictionVars

\* a channel that run() found online or offline, before its first heartbeat
InitMinutes ==
    /\ now = ZeroTime + 1
    /\ watchPriorities = defaultWatchPriorities
    /\ \E answer \in {"online", "offline"} :
          /\ streamers = <<updatePresence(
                [NewStreamer(1000, 0, 0, TRUE, DefaultBet) EXCEPT
                    !.Stream = [lastMinuteUpdate |-> ZeroTime] @@ @],
                answer, now)>>
          /\ wentOnline = <<IF answer = "online" THEN now ELSE ZeroTime>>
    /\ watchList = <<>>
    /\ predictions = NoPredictions
    /\ events = <<>>
    /\ timers = <<>>
    /\ wagers = <<>>
    /\ skipped = <<>>
    /\ resultLog = <<>>
    /\ tasks = <<>>
    /\ topics = <<>>
    /\ conns = <<>>
    /\ stop = FALSE
    /\ returned = <<0>>

NextMinutes ==
    \/ MinutesTick
    \/ \E online \in BOOLEAN : HandlePubSubPresence(1, online)
    \/ RoundPick
    \/ \E ready, accepted \in BOOLEAN : Heartbeat(ready, accepted)

SpecMinutes == InitMinutes /\ [][NextMinutes]_vars

\* C32: the minutes watched of a channel are at most the time during which the
\* channel was online: no heartbeat adds time that passed while it was offline.
C32_MinutesOnlyWhileOnline ==
    streamers[1].Stream.MinuteWatched * MinuteSeconds <= returned[1]

(***************************************************************************)
(* SpecRaid: the raid messages of one channel.  Streamer.LastRaidID is     *)
(* kept in the channel; returned is the list of the calls of JoinRaid,     *)
(* each with the raid id and whether the call succeeded.                   *)
(***************************************************************************)
MaxJoins == 4               \* calls of JoinRaid, at most
RaidIDs == {"", "A", "B", "C"}

\* processRaidMessage for the channel of position i: raidID is raid.id of the
\* payload, ok whether Twitch.JoinRaid succeeds
RaidMessage(i, raidID, ok) ==
    /\ Len(returned) < MaxJoins
    /\ IF ~streamers[i].Settings.FollowRaid \/ raidID = ""
          \/ streamers[i].LastRaidID = raidID
       THEN UNCHANGED <<streamers, returned>>
       ELSE /\ streamers' = [streamers EXCEPT ![i].LastRaidID = raidID]
            /\ returned' = Append(returned, [id |-> raidID, ok |-> ok])
    /\ UNCHANGED <<topics, conns, stop>>
    /\ UNCHANGED <<now, watchPriorities, watchList, wentOnline>>
    /\ UNCHANGED predictionVars

\* a tracked channel that follows raids or does not, before its first raid
InitRaid ==
    /\ \E flags \in {{}, {"FollowRaid"}} :
          streamers = <<[LastRaidID |-> ""] @@ Channel("1", flags)>>
    /\ NoPredictionState
    /\ NoWatchState

NextRaid == \E raidID \in RaidIDs, ok \in BOOLEAN : RaidMessage(1, raidID, ok)

SpecRaid == InitRaid /\ [][NextRaid]_vars

\* the calls of JoinRaid for the raid id
JoinsOf(raidID) == {k \in 1..Len(returned) : returned[k].id = raidID}

\* C33: JoinRaid is called at most once per raid id, whatever the order and
\* the repetitions of the raid messages and whether the call succeeded or not,
\* and never for the empty id.
C33_JoinOncePerRaid ==
    /\ \A raidID \in RaidIDs : Cardinality(JoinsOf(raidID)) <= 1
    /\ JoinsOf("") = {}

\* C34: a placement timer that finds its event removed from the registry
\* submits no wager, computes no Decision and records nothing, and no wager is
\* submitted for an event object whose ResultType is already set.
C34_NoStalePlacement ==
    [][/\ (tasks["place"].pc = "idle" /\ tasks'["place"].pc = "done")
             => /\ wagers' = wagers
                /\ events' = events
                /\ streamers' = streamers
       /\ wagers' # wagers => events[tasks["place"].ev].ResultType = ""]_vars

(***************************************************************************)
(* SpecChannelResolve: one event-updated message for a registered event.   *)
(* The event of the message is the record of its status, of its            *)
(* winning_outcome_id and of the id, the is_winning_outcome flag and the    *)
(* state of each of its outcomes; returned keeps the message handled and   *)
(* the Decision that the event had.                                        *)
(***************************************************************************)
RECURSIVE winningOutcomeScan(_, _)
winningOutcomeScan(outcomes, i) ==
    IF i > Len(outcomes) THEN ""
    ELSE IF outcomes[i].IsWinning /\ outcomes[i].ID # "" THEN outcomes[i].ID
    ELSE IF outcomes[i].State \in {"RESOLVED", "WINNER", "WIN"} /\ outcomes[i].ID # ""
    THEN outcomes[i].ID
    ELSE winningOutcomeScan(outcomes, i + 1)

\* winningOutcomeID(eventMap)
winningOutcomeID(eventMap) ==
    IF eventMap.WinningOutcomeID # "" THEN eventMap.WinningOutcomeID
    ELSE winningOutcomeScan(eventMap.Outcomes, 1)

UpdateStatuses == {"ACTIVE", "LOCKED", "RESOLVED", "CANCELED", "CANCELLED"}

\* the outcomes o1 and o2 of a message, with the winner flagged by
\* is_winning_outcome, by the state, or not at all
FlaggedOutcomes ==
    {<<[ID |-> "o1", IsWinning |-> w[1] = "flag", State |-> IF w[1] = "state" THEN "WINNER" ELSE ""],
       [ID |-> "o2", IsWinning |-> w[2] = "flag", State |-> IF w[2] = "state" THEN "WIN" ELSE ""]>>
        : w \in {<<"", "">>, <<"flag", "">>, <<"", "flag">>, <<"state", "">>,
                 <<"", "state">>, <<"flag", "flag">>}}

UpdateMessages ==
    {[Status |-> status, WinningOutcomeID |-> winning, Outcomes |-> outcomes] :
        status \in UpdateStatuses, winning \in {"", "o1", "o2"},
        outcomes \in FlaggedOutcomes}

\* processPredictionChannel, event-updated, for the message eventMap about the
\* registered event of the id
ChannelResolve(id, eventMap) ==
    /\ returned = <<>>
    /\ predictions[id] # 0
    /\ Updated(predictions[id],
               [events[predictions[id]] EXCEPT !.Status = eventMap.Status,
                                               !.Outcomes = MessageOutcomes[1]],
               eventMap.Status, winningOutcomeID(eventMap))
    /\ returned' = <<[eventMap |-> eventMap,
                       Decision |-> events[predictions[id]].Decision]>>
    /\ UNCHANGED <<timers, wagers, skipped, tasks, topics, conns, stop>>
    /\ UNCHANGED <<now, watchPriorities, watchList, wentOnline>>

\* the Decisions of a registered event: none yet, 50 on o1, 50 on o2
RegisteredDecisions ==
    {NoDecision, [Choice |-> 0, OutcomeID |-> "o1", Amount |-> 50],
     [Choice |-> 1, OutcomeID |-> "o2", Amount |-> 50]}

\* the event e1 is registered, its result tag is not set
InitChannelResolve ==
    /\ streamers = <<NewStreamer(1000, 0, 0, TRUE, DefaultBet)>>
    /\ \E decision \in RegisteredDecisions, status \in {"ACTIVE", "LOCKED"} :
          events = <<[NewPredictionEvent(1, "e1", status, MessageOutcomes[1]) EXCEPT
                         !.Decision = decision,
                         !.BetPlaced = decision.Amount > 0,
                         !.BetConfirmed = decision.Amount > 0]>>
    /\ predictions = [NoPredictions EXCEPT !["e1"] = 1]
    /\ timers = <<[EventID |-> "e1", Fired |-> TRUE]>>
    /\ wagers = <<>>
    /\ skipped = <<>>
    /\ resultLog = <<>>
    /\ tasks = <<>>
    /\ NoConnState
    /\ NoWatchState

NextChannelResolve == \E eventMap \in UpdateMessages : ChannelResolve("e1", eventMap)

SpecChannelResolve == InitChannelResolve /\ [][NextChannelResolve]_vars

\* the winner that the message names: the explicit field, else the first
\* outcome flagged as the winner
NamedWinner(eventMap) ==
    IF eventMap.WinningOutcomeID # "" THEN eventMap.WinningOutcomeID
    ELSE IF \E i \in 1..Len(eventMap.Outcomes) :
               eventMap.Outcomes[i].IsWinning \/ eventMap.Outcomes[i].State # ""
    THEN eventMap.Outcomes[CHOOSE i \in 1..Len(eventMap.Outcomes) :
               /\ eventMap.Outcomes[i].IsWinning \/ eventMap.Outcomes[i].State # ""
               /\ \A j \in 1..(i - 1) :
                     ~(eventMap.Outcomes[j].IsWinning \/ eventMap.Outcomes[j].State # "")].ID
    ELSE ""

\* the result that the message gives an event that wagered on outcomeID, ""
\* for none
ExpectedResult(eventMap, outcomeID) ==
    IF eventMap.Status \in {"CANCELED", "CANCELLED"} THEN "REFUND"
    ELSE IF eventMap.Status = "RESOLVED" /\ NamedWinner(eventMap) # ""
    THEN (IF NamedWinner(eventMap) = outcomeID THEN "WIN" ELSE "LOSE")
    ELSE ""

\* the message resolved the event with the result and removed it from the
\* registry, or, for no result, left it there unresolved
ResolvedAs(result) ==
    IF result = ""
    THEN predictions["e1"] # 0 /\ resultLog = <<>>
         /\ events[predictions["e1"]].ResultType = ""
    ELSE predictions["e1"] = 0 /\ Len(resultLog) = 1
         /\ resultLog[1].ResultType = result

\* C35: an event-updated message for a registered event whose result tag is
\* not set resolves it as REFUND when the status is CANCELED or CANCELLED, as
\* WIN or LOSE when the status is RESOLVED and the message names a winner
\* (WIN iff the winner is the outcome of the Decision), and otherwise leaves
\* the event unresolved in the registry.
C35_ChannelResolution ==
    returned # <<>> =>
        ResolvedAs(ExpectedResult(returned[1].eventMap, returned[1].Decision.OutcomeID))

\* C36: under NUMBER_k the choice is the index k-1 when the event has at least
\* k outcomes, and the HIGH_ODDS choice when it has fewer.
C36_FixedIndexIfPresent ==
    \A e \in 1..Len(events) : \A k \in 1..Len(StrategyNumbers) :
        (Decided(events[e]) /\ BetOf(events[e]).Strategy = StrategyNumbers[k]) =>
            IF Len(events[e].Outcomes) >= k
            THEN /\ events[e].Decision.Choice = k - 1
                 /\ events[e].Decision.OutcomeID = events[e].Outcomes[k].ID
            ELSE IsHighOdds(events[e].Outcomes, events[e].Decision.Choice)

\* C36 witness: NUMBER_2 decided for the second of three outcomes although
\* the first has the highest odds.
C36_Witness ==
    \E e \in 1..Len(events) :
        /\ Decided(events[e])
        /\ BetOf(events[e]).Strategy = "NUMBER_2"
        /\ Len(events[e].Outcomes) = 3
        /\ events[e].Decision.Choice = 1
        /\ IsHighOdds(events[e].Outcomes, 0)

\* C36 witness of the other case: NUMBER_4 on an event of three outcomes
\* decided for the third, which has the highest odds.
C36_WitnessFewer ==
    \E e \in 1..Len(events) :
        /\ Decided(events[e])
        /\ BetOf(events[e]).Strategy = "NUMBER_4"
        /\ Len(events[e].Outcomes) = 3
        /\ events[e].Decision.Choice = 2

\* the topics named by the LISTEN frames written on the connection of a loop
ListenedTopics(l) == {l.sent[f].topics[1] : f \in 1..Len(l.sent)}

\* the topics of the batch of a loop
BatchTopics(l) == {l.topics[t] : t \in 1..Len(l.topics)}

\* a loop whose connection reads inbound messages or has its ping timer armed
Serving(l) == l.reader # "none" \/ l.pc = "listening"

\* C37: a connection reads inbound messages and sends a PING only after a
\* LISTEN was written on it for every topic of its batch; a connection is
\* dialled with nothing written on it and reaches the select only through
\* listenTopics, so every reconnect writes the LISTEN of the whole batch
\* again; and the batch of a loop never changes.
C37_ListenBeforeServing ==
    [][\A i \in 1..Len(conns) :
          /\ Len(conns') = Len(conns)
          /\ conns'[i].topics = conns[i].topics
          /\ Serving(conns'[i]) =>
                /\ conns'[i].open
                /\ ListenedTopics(conns'[i]) = BatchTopics(conns'[i])
                /\ Len(conns'[i].sent) = Len(conns'[i].topics)
          /\ (conns[i].lastPong # conns'[i].lastPong /\ conns'[i].lastPong # ZeroTime
              /\ conns[i].pc = "listening") =>
                ListenedTopics(conns[i]) = BatchTopics(conns[i])
          /\ (conns[i].pc = "listening" /\ conns'[i].pc = "listening"
              /\ conns'[i].pingAt # conns[i].pingAt) =>
                ListenedTopics(conns[i]) = BatchTopics(conns[i])
          /\ (conns[i].pc # "listening" /\ conns'[i].pc = "listening") =>
                /\ conns[i].pc = "subscribe"
                /\ conns[i].sent = <<>>
          /\ (conns[i].pc # "subscribe" /\ conns'[i].pc = "subscribe") =>
                /\ conns[i].pc = "dial"
                /\ conns'[i].sent = <<>>
                /\ conns'[i].reader = "none"
      ]_vars

\* C37 witness: the only loop listens at the end of its second backoff, with
\* the LISTEN of each topic of its batch written on the new
\* connection.
C37_Witness ==
    /\ Len(conns) = 1
    /\ now = ZeroTime + 1 + 2 * BackoffSeconds
    /\ conns[1].pc = "listening"
    /\ conns[1].lastPong = now
    /\ Len(conns[1].topics) >= 4
    /\ ListenedTopics(conns[1]) = BatchTopics(conns[1])

\* C38: when the channel reports an event RESOLVED or CANCELED whose wager was
\* never submitted successfully (the placement was skipped, or the submission
\* failed), the ledger of the channel is left as it was.
C38_ResultOnlyForSubmitted ==
    [][\A id \in EventIDs, status \in {"RESOLVED", "CANCELED"},
          k \in 1..Len(MessageRaw), winningID \in {"", "o1", "o2"} :
          (/\ predictions[id] # 0
           /\ WagersFor(id) = {}
           /\ EventUpdated(id, status, k, winningID))
          => streamers'[1].History = streamers[1].History]_vars

\* C39: whatever the delay and the delay mode of the channel, the adjusted
\* window of a created event lies between 0 and the window of the message, so
\* the placement is never armed for later than the end of the window.
C39_AdjustedWithinWindow ==
    returned # <<>> =>
        /\ ~SLess(returned[1].adjusted, SOfInt(0))
        /\ ~SLess(SOfInt(returned[1].window), returned[1].adjusted)
        /\ returned[1].wait <=
              Max(0, (returned[1].window - (now - returned[1].createdAt)) * TimeSecond)

\* C40: the OnlineAt of a channel changes only in a step that turns the channel
\* online, or that makes its presence known: a notification or a re-validation
\* that finds an online channel online leaves it, and a channel that has been
\* online for 30 seconds is a candidate of the scheduler.
C40_OnlineAtOnTransition ==
    [][\A i \in 1..Len(streamers) :
          /\ streamers'[i].OnlineAt # streamers[i].OnlineAt =>
                /\ streamers'[i].IsOnline
                /\ ~streamers[i].IsOnline \/ ~streamers[i].PresenceKnown
          /\ (streamers'[i].IsOnline /\ now' - wentOnline'[i] >= OnlineDebounce) =>
                IsCandidate(streamers'[i], now')]_vars

=============================================================================
